---- MODULE Spec2Model ----
(***************************************************************************)
(* link2aws: the ARN parser (src/src/arn.rs), the ARN rebuilder and the    *)
(* link table (ArnParts::build and ArnParts::link, src/src/parts.rs),      *)
(* arn_to_link (src/src/lib.rs) and the command line tool                  *)
(* (src/src/main.rs).                                                      *)
(*                                                                         *)
(* A string is a sequence of characters; a character is a one-character    *)
(* TLA+ string, and a code point outside ASCII is named by its code point  *)
(* ("U+00E9").  Utf8Width gives the number of bytes of a character in      *)
(* UTF-8, which is what Rust's str::len counts.                            *)
(***************************************************************************)
EXTENDS Integers, Sequences, FiniteSets, TLC

VARIABLES arn_str, pc, result, built, reparsed, rebuilt, padded_str, padded_result,
          link_result, a2l_result, owned, owned_link, owned_built, custom, custom_link,
          cli_stdin, cli_quiet, cli_lines, cli_next, all_ok, stdout, stderr, exit_code

\* link(), arn_to_link and the owned and hand-written records
linkvars == <<link_result, a2l_result, owned, owned_link, owned_built, custom, custom_link>>

\* the command line tool
clivars == <<cli_stdin, cli_quiet, cli_lines, cli_next, all_ok, stdout, stderr, exit_code>>

vars == <<arn_str, pc, result, built, reparsed, rebuilt, padded_str, padded_result,
          linkvars, clivars>>

----------------------------------------------------------------------------
(* Characters *)

Lower == {"a","b","c","d","e","f","g","h","i","j","k","l","m",
          "n","o","p","q","r","s","t","u","v","w","x","y","z"}

Upper == {"A","B","C","D","E","F","G","H","I","J","K","L","M",
          "N","O","P","Q","R","S","T","U","V","W","X","Y","Z"}

Digit == {"0","1","2","3","4","5","6","7","8","9"}

\* Code points of the model that take two bytes in UTF-8.
TwoByteChars == {"U+00E9", "U+00A0"}

\* char::len_utf8
Utf8Width(c) == IF c \in TwoByteChars THEN 2 ELSE 1

\* char::is_whitespace (Unicode White_Space), on the characters of the model
is_whitespace(c) == c \in {" ", "\t", "\n", "U+00A0"}

\* char::is_ascii_alphanumeric, variant that takes any letter (char::is_alphanumeric)
is_alphanumeric_any(c) == c \in Lower \cup Upper \cup Digit \cup {"U+00E9"}

\* char::is_ascii_alphanumeric
is_ascii_alphanumeric(c) == c \in Lower \cup Upper \cup Digit

\* the punctuation of ":/+=,.@_*#-"
AllowedPunct == {":", "/", "+", "=", ",", ".", "@", "_", "*", "#", "-"}

\* the closure of the alphabet check of Arn::new
is_allowed_char(c) == is_ascii_alphanumeric(c) \/ c \in AllowedPunct

\* the closure of the region check of Arn::new, variant that forgets the check
is_region_char_any(c) == TRUE

\* the closure of the region check of Arn::new
is_region_char(c) == is_ascii_alphanumeric(c) \/ c = "-"

----------------------------------------------------------------------------
(* Strings *)

Min(S) == CHOOSE x \in S : \A y \in S : x <= y

\* str::len: the length in bytes of the UTF-8 encoding
str_len(s) == Len(s) + Cardinality({i \in 1..Len(s) : Utf8Width(s[i]) = 2})

\* str::trim, variant that strips the leading whitespace only (str::trim_start)
trim_start_only(s) ==
    LET ws   == {i \in 1..Len(s) : is_whitespace(s[i])}
        lead == Cardinality({i \in ws : \A j \in 1..i : j \in ws})
    IN SubSeq(s, lead + 1, Len(s))

\* str::trim: strips leading and trailing whitespace
trim(s) ==
    LET n     == Len(s)
        ws    == {i \in 1..n : is_whitespace(s[i])}
        lead  == Cardinality({i \in ws : \A j \in 1..i : j \in ws})
        trail == Cardinality({i \in ws : \A j \in i..n : j \in ws})
    IN IF lead = n THEN <<>> ELSE SubSeq(s, lead + 1, n - trail)

\* str::starts_with
starts_with(s, p) == Len(s) >= Len(p) /\ SubSeq(s, 1, Len(p)) = p

----------------------------------------------------------------------------
(* The parser (mod parser of arn.rs, on nom's combinators).  A combinator  *)
(* returns [ok, out, rest]: whether it matched, what it took, what is left.*)

Fail == [ok |-> FALSE, out |-> <<>>, rest |-> <<>>]

\* nom take_till(cond): the longest prefix with no character of stop; may be empty
take_till(stop, input) ==
    LET hits == {i \in 1..Len(input) : input[i] \in stop}
        n    == IF hits = {} THEN Len(input) ELSE Min(hits) - 1
    IN [ok |-> TRUE, out |-> SubSeq(input, 1, n), rest |-> SubSeq(input, n + 1, Len(input))]

\* nom take_till1: as take_till, but fails on an empty match
take_till1(stop, input) ==
    LET r == take_till(stop, input) IN IF r.out = <<>> THEN Fail ELSE r

\* nom terminated(first, char(c)): first's output, then the character c is consumed
terminated_by_char(r, c) ==
    IF r.ok /\ r.rest # <<>> /\ Head(r.rest) = c
    THEN [ok |-> TRUE, out |-> r.out, rest |-> Tail(r.rest)]
    ELSE Fail

\* terminated_by_colon, variant that refuses an empty field (take_till1)
terminated_by_colon_nonempty(input) == terminated_by_char(take_till1({":"}, input), ":")

terminated_by_colon(input) == terminated_by_char(take_till({":"}, input), ":")

terminated_by_colon_not_slash(input) == terminated_by_char(take_till({":", "/"}, input), ":")

terminated_by_slash_not_colon(input) == terminated_by_char(take_till({":", "/"}, input), "/")

\* the prefix, variant that takes "ARN:" as well (tag_no_case)
arn_prefix_any_case(input) ==
    IF starts_with(input, <<"a", "r", "n", ":">>) \/ starts_with(input, <<"A", "R", "N", ":">>)
    THEN [ok |-> TRUE, out |-> SubSeq(input, 1, 3), rest |-> SubSeq(input, 5, Len(input))]
    ELSE Fail

\* terminated(tag("arn"), char(':'))
arn_prefix(input) ==
    IF starts_with(input, <<"a", "r", "n", ":">>)
    THEN [ok |-> TRUE, out |-> <<"a", "r", "n">>, rest |-> SubSeq(input, 5, Len(input))]
    ELSE Fail

\* the third alternative's type, variant without opt(char('/'))
type_without_opt_slash(input) == terminated_by_slash_not_colon(input)

\* preceded(opt(char('/')), terminated_by_slash_not_colon): opt does not give
\* the slash back when what follows it fails
opt_slash_then_type(input) ==
    IF input # <<>> /\ Head(input) = "/"
    THEN terminated_by_slash_not_colon(Tail(input))
    ELSE terminated_by_slash_not_colon(input)

Tail4(ok, ty, id, rev, path) ==
    [ok |-> ok, resource_type |-> ty, resource_id |-> id,
     resource_revision |-> rev, has_path |-> path]

\* first alternative: resource-type/resource-id:resource-revision
tail_form_A(input) ==
    LET ty == terminated_by_slash_not_colon(input)
        id == IF ty.ok THEN terminated_by_colon_not_slash(ty.rest) ELSE Fail
    IN Tail4(id.ok, ty.out, id.out, id.rest, TRUE)

\* second alternative, variant whose resource-id stops at the next colon
tail_form_B_id_to_colon(input) ==
    LET ty == terminated_by_colon_not_slash(input)
        id == IF ty.ok THEN take_till({":"}, ty.rest) ELSE Fail
    IN Tail4(ty.ok, ty.out, id.out,
             IF id.rest = <<>> THEN <<>> ELSE Tail(id.rest), FALSE)

\* second alternative: resource-type:resource-id
tail_form_B(input) ==
    LET ty == terminated_by_colon_not_slash(input)
    IN Tail4(ty.ok, ty.out, ty.rest, <<>>, FALSE)

\* third alternative: [/]resource-type/resource-id
tail_form_C(input) ==
    LET ty == opt_slash_then_type(input)
    IN Tail4(ty.ok, ty.out, ty.rest, <<>>, TRUE)

\* fourth alternative: resource-id
tail_form_D(input) == Tail4(TRUE, <<>>, input, <<>>, FALSE)

\* nom alt, variant that tries the common case (the third alternative) first
alt_tail_common_case_first(input) ==
    IF tail_form_C(input).ok THEN tail_form_C(input)
    ELSE IF tail_form_A(input).ok THEN tail_form_A(input)
    ELSE IF tail_form_B(input).ok THEN tail_form_B(input)
    ELSE tail_form_D(input)

\* nom alt: the first alternative that matches
alt_tail(input) ==
    IF tail_form_A(input).ok THEN tail_form_A(input)
    ELSE IF tail_form_B(input).ok THEN tail_form_B(input)
    ELSE IF tail_form_C(input).ok THEN tail_form_C(input)
    ELSE tail_form_D(input)

ParseFail == [ok |-> FALSE]

\* parser::parse.  Every alternative of the tail ends in rest, which takes all
\* that is left, so all_consuming refuses nothing the sequence accepts.
parse(input) ==
    LET p0 == arn_prefix(input)
        p1 == IF p0.ok THEN terminated_by_colon(p0.rest) ELSE Fail
        p2 == IF p1.ok THEN terminated_by_colon(p1.rest) ELSE Fail
        p3 == IF p2.ok THEN terminated_by_colon(p2.rest) ELSE Fail
        p4 == IF p3.ok THEN terminated_by_colon(p3.rest) ELSE Fail
    IN IF ~p4.ok THEN ParseFail
       ELSE LET t == alt_tail(p4.rest)
            IN [ok |-> TRUE,
                arn |-> [partition |-> p1.out, service |-> p2.out,
                         region |-> p3.out, account |-> p4.out,
                         resource_type |-> t.resource_type,
                         resource_id |-> t.resource_id,
                         resource_revision |-> t.resource_revision,
                         has_path |-> t.has_path]]

----------------------------------------------------------------------------
(* Arn::new *)

\* the length limit of Arn::new
MaxArnLen == 2048

Err(e) == [tag |-> "Err", err |-> e]

Ok(a) == [tag |-> "Ok", arn |-> a]

\* Arn::new, variant that checks the alphabet before the length
ArnNew_alphabet_first(raw) ==
    LET s == trim(raw)
    IN IF ~(\A i \in 1..Len(s) : is_allowed_char(s[i])) THEN Err("BadCharacters")
       ELSE IF str_len(s) > MaxArnLen THEN Err("TooLong")
       ELSE LET p == parse(s)
            IN IF ~p.ok THEN Err("ParseError")
               ELSE IF ~(\A i \in 1..Len(p.arn.region) : is_region_char(p.arn.region[i]))
                    THEN Err("BadCharacters")
                    ELSE Ok(p.arn)

\* Arn::new, variant that checks the length before trimming
ArnNew_len_before_trim(raw) ==
    LET s == trim(raw)
    IN IF str_len(raw) > MaxArnLen THEN Err("TooLong")
       ELSE IF ~(\A i \in 1..Len(s) : is_allowed_char(s[i])) THEN Err("BadCharacters")
       ELSE LET p == parse(s)
            IN IF ~p.ok THEN Err("ParseError")
               ELSE IF ~(\A i \in 1..Len(p.arn.region) : is_region_char(p.arn.region[i]))
                    THEN Err("BadCharacters")
                    ELSE Ok(p.arn)

\* Arn::new, variant whose limit is off by one (>= for >)
ArnNew_limit_inclusive(raw) ==
    LET s == trim(raw)
    IN IF str_len(s) >= MaxArnLen THEN Err("TooLong")
       ELSE IF ~(\A i \in 1..Len(s) : is_allowed_char(s[i])) THEN Err("BadCharacters")
       ELSE LET p == parse(s)
            IN IF ~p.ok THEN Err("ParseError")
               ELSE IF ~(\A i \in 1..Len(p.arn.region) : is_region_char(p.arn.region[i]))
                    THEN Err("BadCharacters")
                    ELSE Ok(p.arn)

\* Arn::new, variant without the check of the region
ArnNew_without_region_check(raw) ==
    LET s == trim(raw)
    IN IF str_len(s) > MaxArnLen THEN Err("TooLong")
       ELSE IF ~(\A i \in 1..Len(s) : is_allowed_char(s[i])) THEN Err("BadCharacters")
       ELSE LET p == parse(s)
            IN IF ~p.ok THEN Err("ParseError") ELSE Ok(p.arn)

\* Arn::new: trim, length, alphabet, grammar, region, in this order
ArnNew(raw) ==
    LET s == trim(raw)
    IN IF str_len(s) > MaxArnLen THEN Err("TooLong")
       ELSE IF ~(\A i \in 1..Len(s) : is_allowed_char(s[i])) THEN Err("BadCharacters")
       ELSE LET p == parse(s)
            IN IF ~p.ok THEN Err("ParseError")
               ELSE IF ~(\A i \in 1..Len(p.arn.region) : is_region_char(p.arn.region[i]))
                    THEN Err("BadCharacters")
                    ELSE Ok(p.arn)

----------------------------------------------------------------------------
(* ArnParts::build *)

S_apigateway == <<"a", "p", "i", "g", "a", "t", "e", "w", "a", "y">>

build(a) ==
    LET colon_before_type     == IF a.resource_type # <<>> THEN <<":">> ELSE <<>>
        slash_before_type     == IF a.service = S_apigateway THEN <<"/">> ELSE <<>>
        delim_before_id       == IF a.has_path THEN <<"/">> ELSE <<":">>
        colon_before_revision == IF a.resource_revision # <<>> THEN <<":">> ELSE <<>>
    IN <<"a", "r", "n">>
       \o <<":">> \o a.partition
       \o <<":">> \o a.service
       \o <<":">> \o a.region
       \o <<":">> \o a.account
       \o colon_before_type \o slash_before_type \o a.resource_type
       \o delim_before_id \o a.resource_id
       \o colon_before_revision \o a.resource_revision

----------------------------------------------------------------------------
(* String operations of the link rules.  An Option is [some, ...]; an      *)
(* Option of a pair is [some, first, second].                              *)

NoPair == [some |-> FALSE, first |-> <<>>, second |-> <<>>]

SomePair(x, y) == [some |-> TRUE, first |-> x, second |-> y]

NoStr == [some |-> FALSE, val |-> <<>>]

SomeStr(x) == [some |-> TRUE, val |-> x]

\* the positions of the character c in s
Hits(s, c) == {i \in 1..Len(s) : s[i] = c}

\* the position of the k-th c of s; 0 for k = 0 and Len(s) + 1 past the last one
HitAt(s, c, k) ==
    IF k = 0 THEN 0
    ELSE IF k > Cardinality(Hits(s, c)) THEN Len(s) + 1
    ELSE CHOOSE i \in Hits(s, c) : Cardinality({j \in Hits(s, c) : j <= i}) = k

\* str::split(c).collect(): the segments between the occurrences of c (never empty)
split(s, c) ==
    [k \in 1..(Cardinality(Hits(s, c)) + 1) |->
        SubSeq(s, HitAt(s, c, k - 1) + 1, HitAt(s, c, k) - 1)]

\* str::split_once(c): around the first c
split_once(s, c) ==
    IF Hits(s, c) = {} THEN NoPair
    ELSE LET i == HitAt(s, c, 1)
         IN SomePair(SubSeq(s, 1, i - 1), SubSeq(s, i + 1, Len(s)))

\* str::rsplit_once(c): around the last c
rsplit_once(s, c) ==
    IF Hits(s, c) = {} THEN NoPair
    ELSE LET i == HitAt(s, c, Cardinality(Hits(s, c)))
         IN SomePair(SubSeq(s, 1, i - 1), SubSeq(s, i + 1, Len(s)))

\* Option<(&str, &str)>::unwrap_or_default: ("", "") for None
unwrap_or_default(o) == IF o.some THEN o ELSE SomePair(<<>>, <<>>)

\* str::contains(sub)
contains(s, sub) == \E i \in 1..(Len(s) - Len(sub) + 1) : SubSeq(s, i, i + Len(sub) - 1) = sub

\* str::trim_start_matches(c)
trim_start_matches(s, c) ==
    LET lead == Cardinality({i \in Hits(s, c) : \A j \in 1..i : s[j] = c})
    IN SubSeq(s, lead + 1, Len(s))

\* str::strip_suffix(suffix)
strip_suffix(s, suffix) ==
    IF Len(s) >= Len(suffix) /\ SubSeq(s, Len(s) - Len(suffix) + 1, Len(s)) = suffix
    THEN SomeStr(SubSeq(s, 1, Len(s) - Len(suffix)))
    ELSE NoStr

\* str::replace(from, to): every match of from, left to right, not overlapping
RECURSIVE replace(_, _, _)
replace(s, from, to) ==
    IF s = <<>> THEN <<>>
    ELSE IF starts_with(s, from)
         THEN to \o replace(SubSeq(s, Len(from) + 1, Len(s)), from, to)
         ELSE <<Head(s)>> \o replace(Tail(s), from, to)

----------------------------------------------------------------------------
(* ArnPartsHelper and ArnParts::link *)

S_aws == <<"a","w","s">>

S_aws_cn == <<"a","w","s","-","c","n">>

S_aws_us_gov == <<"a","w","s","-","u","s","-","g","o","v">>

\* ArnPartsHelper::domain, variant whose default arm is the aws console
domain_default_aws(a) ==
    IF a.partition = S_aws_cn
    THEN SomeStr(<<"c","o","n","s","o","l","e",".","a","m","a","z","o","n","a","w","s",".","c","n">>)
    ELSE IF a.partition = S_aws_us_gov
    THEN SomeStr(<<"c","o","n","s","o","l","e",".","a","m","a","z","o","n","a","w","s","-",
                   "u","s","-","g","o","v",".","c","o","m">>)
    ELSE SomeStr(<<"c","o","n","s","o","l","e",".","a","w","s",".","a","m","a","z","o","n",".","c","o","m">>)

\* ArnPartsHelper::domain
domain(a) ==
    IF a.partition = S_aws
    THEN SomeStr(<<"c","o","n","s","o","l","e",".","a","w","s",".","a","m","a","z","o","n",".","c","o","m">>)
    ELSE IF a.partition = S_aws_cn
    THEN SomeStr(<<"c","o","n","s","o","l","e",".","a","m","a","z","o","n","a","w","s",".","c","n">>)
    ELSE IF a.partition = S_aws_us_gov
    THEN SomeStr(<<"c","o","n","s","o","l","e",".","a","m","a","z","o","n","a","w","s","-",
                   "u","s","-","g","o","v",".","c","o","m">>)
    ELSE NoStr

\* path_last, variant that takes the last segment whatever has_path is
path_last_ignoring_has_path(a) ==
    LET parts == split(a.resource_id, "/") IN parts[Len(parts)]

\* ArnPartsHelper::path_last: rsplit('/').next() when has_path
path_last(a) ==
    IF a.has_path
    THEN LET parts == split(a.resource_id, "/") IN parts[Len(parts)]
    ELSE a.resource_id

NoLink == [some |-> FALSE, url |-> <<>>]

\* Some(format!(..)) when every `?` of the arm passes, else None
SomeIf(passes, url) == IF passes THEN [some |-> TRUE, url |-> url] ELSE NoLink

\* ("amplify", "apps"), variant that keeps the leading zeros of the job
link_amplify_apps_keep_zeros(a, d) ==
    LET resource_split == split(a.resource_id, "/")
        app_id == resource_split[1]
        branch == resource_split[3]
        job == resource_split[Len(resource_split)]
    IN SomeIf(d.some /\ contains(a.resource_id, <<"/","j","o","b","s","/">>) /\ Len(resource_split) >= 4,
        <<"h","t","t","p","s",":","/","/">>
        \o a.region
        \o <<".">>
        \o d.val
        \o <<"/","a","m","p","l","i","f","y","/","h","o","m","e","?","r","e","g","i","o","n","=">>
        \o a.region
        \o <<"#","/">>
        \o app_id
        \o <<"/">>
        \o branch
        \o <<"/">>
        \o job)

\* ("amplify", "apps"):
\*   "https://{region}.{domain}/amplify/home?region={region}#/{app_id}/{branch}/{job}"
link_amplify_apps(a, d) ==
    LET resource_split == split(a.resource_id, "/")
        app_id == resource_split[1]
        branch == resource_split[3]
        job == trim_start_matches(resource_split[Len(resource_split)], "0")
    IN SomeIf(d.some /\ contains(a.resource_id, <<"/","j","o","b","s","/">>) /\ Len(resource_split) >= 4,
        <<"h","t","t","p","s",":","/","/">>
        \o a.region
        \o <<".">>
        \o d.val
        \o <<"/","a","m","p","l","i","f","y","/","h","o","m","e","?","r","e","g","i","o","n","=">>
        \o a.region
        \o <<"#","/">>
        \o app_id
        \o <<"/">>
        \o branch
        \o <<"/">>
        \o job)

\* ("autoscaling", "autoScalingGroup"), variant that splits at the last '/'
link_autoscaling_group_last_slash(a, d) ==
    LET group_name == unwrap_or_default(rsplit_once(a.resource_id, "/")).second
    IN SomeIf(d.some,
        <<"h","t","t","p","s",":","/","/">>
        \o a.region
        \o <<".">>
        \o d.val
        \o <<"/","e","c","2","/","h","o","m","e","?","r","e","g","i","o","n","=">>
        \o a.region
        \o <<"#","A","u","t","o","S","c","a","l","i","n","g","G","r","o","u","p","D","e","t","a","i","l","s",":","i","d","=">>
        \o group_name
        \o <<";","v","i","e","w","=","d","e","t","a","i","l","s">>)

\* ("autoscaling", "autoScalingGroup"):
\*   "https://{region}.{domain}/ec2/home?region={region}#AutoScalingGroupDetails:id={group_name};view=details"
link_autoscaling_group(a, d) ==
    LET group_name == unwrap_or_default(split_once(a.resource_id, "/")).second
    IN SomeIf(d.some,
        <<"h","t","t","p","s",":","/","/">>
        \o a.region
        \o <<".">>
        \o d.val
        \o <<"/","e","c","2","/","h","o","m","e","?","r","e","g","i","o","n","=">>
        \o a.region
        \o <<"#","A","u","t","o","S","c","a","l","i","n","g","G","r","o","u","p","D","e","t","a","i","l","s",":","i","d","=">>
        \o group_name
        \o <<";","v","i","e","w","=","d","e","t","a","i","l","s">>)

\* ("ecs", "service"):
\*   "https://{region}.{domain}/ecs/v2/clusters/{path_all_but_last}/services/{path_last}?region={region}"
link_ecs_service(a, d) ==
    LET parts == unwrap_or_default(rsplit_once(a.resource_id, "/"))
    IN SomeIf(d.some,
        <<"h","t","t","p","s",":","/","/">>
        \o a.region
        \o <<".">>
        \o d.val
        \o <<"/","e","c","s","/","v","2","/","c","l","u","s","t","e","r","s","/">>
        \o parts.first
        \o <<"/","s","e","r","v","i","c","e","s","/">>
        \o parts.second
        \o <<"?","r","e","g","i","o","n","=">>
        \o a.region)

\* ("ecs", "task"), variant that splits at the first '/'
link_ecs_task_first_slash(a, d) ==
    LET parts == unwrap_or_default(split_once(a.resource_id, "/"))
    IN SomeIf(d.some,
        <<"h","t","t","p","s",":","/","/">>
        \o a.region
        \o <<".">>
        \o d.val
        \o <<"/","e","c","s","/","v","2","/","c","l","u","s","t","e","r","s","/">>
        \o parts.first
        \o <<"/","t","a","s","k","s","/">>
        \o parts.second
        \o <<"?","r","e","g","i","o","n","=">>
        \o a.region)

\* ("ecs", "task"):
\*   "https://{region}.{domain}/ecs/v2/clusters/{path_all_but_last}/tasks/{path_last}?region={region}"
link_ecs_task(a, d) ==
    LET parts == unwrap_or_default(rsplit_once(a.resource_id, "/"))
    IN SomeIf(d.some,
        <<"h","t","t","p","s",":","/","/">>
        \o a.region
        \o <<".">>
        \o d.val
        \o <<"/","e","c","s","/","v","2","/","c","l","u","s","t","e","r","s","/">>
        \o parts.first
        \o <<"/","t","a","s","k","s","/">>
        \o parts.second
        \o <<"?","r","e","g","i","o","n","=">>
        \o a.region)

\* ("eks", "nodegroup"), variant with an empty nodegroup name for a missing segment
link_eks_nodegroup_default(a, d) ==
    LET parts == split(a.resource_id, "/")
    IN SomeIf(d.some,
        <<"h","t","t","p","s",":","/","/">>
        \o d.val
        \o <<"/","e","k","s","/","h","o","m","e","?","r","e","g","i","o","n","=">>
        \o a.region
        \o <<"#","/","c","l","u","s","t","e","r","s","/">>
        \o parts[1]
        \o <<"/","n","o","d","e","g","r","o","u","p","s","/">>
        \o (IF Len(parts) >= 2 THEN parts[2] ELSE <<>>))

\* ("eks", "nodegroup"):
\*   "https://{domain}/eks/home?region={region}#/clusters/{cluster_name}/nodegroups/{nodegroup_name}"
link_eks_nodegroup(a, d) ==
    LET parts == split(a.resource_id, "/")
    IN SomeIf(d.some /\ Len(parts) >= 2,
        <<"h","t","t","p","s",":","/","/">>
        \o d.val
        \o <<"/","e","k","s","/","h","o","m","e","?","r","e","g","i","o","n","=">>
        \o a.region
        \o <<"#","/","c","l","u","s","t","e","r","s","/">>
        \o parts[1]
        \o <<"/","n","o","d","e","g","r","o","u","p","s","/">>
        \o parts[2])

\* ("iam", "group"): "https://{domain}/iamv2/home#/groups/details/{last}"
link_iam_group(a, d) ==
    SomeIf(d.some,
        <<"h","t","t","p","s",":","/","/">>
        \o d.val
        \o <<"/","i","a","m","v","2","/","h","o","m","e","#","/","g","r","o","u","p","s","/","d","e","t","a","i","l","s","/">>
        \o path_last(a))

\* ("iam", "role"): "https://{domain}/iam/home?#/roles/{last}"
link_iam_role(a, d) ==
    SomeIf(d.some,
        <<"h","t","t","p","s",":","/","/">>
        \o d.val
        \o <<"/","i","a","m","/","h","o","m","e","?","#","/","r","o","l","e","s","/">>
        \o path_last(a))

\* ("lambda", "layer"), variant that keeps an empty version
link_lambda_layer_no_default(a, d) ==
    LET q == split_once(a.resource_id, ":")
        qualifier0 == IF q.some THEN q.first ELSE a.resource_id
        qualifier1 == IF q.some THEN q.second ELSE <<"1">>
    IN SomeIf(d.some,
        <<"h","t","t","p","s",":","/","/">>
        \o a.region
        \o <<".">>
        \o d.val
        \o <<"/","l","a","m","b","d","a","/","h","o","m","e","?","r","e","g","i","o","n","=">>
        \o a.region
        \o <<"#","/","l","a","y","e","r","s","/">>
        \o qualifier0
        \o <<"/","v","e","r","s","i","o","n","s","/">>
        \o qualifier1)

\* ("lambda", "layer"):
\*   "https://{region}.{domain}/lambda/home?region={region}#/layers/{qualifier0}/versions/{qualifier1}"
link_lambda_layer(a, d) ==
    LET q == split_once(a.resource_id, ":")
        qualifier0 == IF q.some THEN q.first ELSE a.resource_id
        qualifier1 == IF q.some /\ q.second # <<>> THEN q.second ELSE <<"1">>
    IN SomeIf(d.some,
        <<"h","t","t","p","s",":","/","/">>
        \o a.region
        \o <<".">>
        \o d.val
        \o <<"/","l","a","m","b","d","a","/","h","o","m","e","?","r","e","g","i","o","n","=">>
        \o a.region
        \o <<"#","/","l","a","y","e","r","s","/">>
        \o qualifier0
        \o <<"/","v","e","r","s","i","o","n","s","/">>
        \o qualifier1)

\* ("logs", "log-group"), variant that keeps an id without the suffix
link_logs_log_group_suffix_optional(a, d) ==
    LET found == strip_suffix(a.resource_id, <<":","*">>)
        stripped == IF found.some THEN found ELSE SomeStr(a.resource_id)
        resource == replace(replace(replace(stripped.val, <<":">>, <<"$","3","A">>), <<"#">>, <<"$","2","5","2","3">>), <<"/">>, <<"$","2","5","2","F">>)
    IN SomeIf(d.some /\ stripped.some,
        <<"h","t","t","p","s",":","/","/">>
        \o a.region
        \o <<".">>
        \o d.val
        \o <<"/","c","l","o","u","d","w","a","t","c","h","/","h","o","m","e","?","r","e","g","i","o","n","=">>
        \o a.region
        \o <<"#","l","o","g","s","V","2",":","l","o","g","-","g","r","o","u","p","s","/","l","o","g","-","g","r","o","u","p","/">>
        \o resource)

\* ("logs", "log-group"):
\*   "https://{region}.{domain}/cloudwatch/home?region={region}#logsV2:log-groups/log-group/{resource}"
link_logs_log_group(a, d) ==
    LET stripped == strip_suffix(a.resource_id, <<":","*">>)
        resource == replace(replace(replace(stripped.val, <<":">>, <<"$","3","A">>), <<"#">>, <<"$","2","5","2","3">>), <<"/">>, <<"$","2","5","2","F">>)
    IN SomeIf(d.some /\ stripped.some,
        <<"h","t","t","p","s",":","/","/">>
        \o a.region
        \o <<".">>
        \o d.val
        \o <<"/","c","l","o","u","d","w","a","t","c","h","/","h","o","m","e","?","r","e","g","i","o","n","=">>
        \o a.region
        \o <<"#","l","o","g","s","V","2",":","l","o","g","-","g","r","o","u","p","s","/","l","o","g","-","g","r","o","u","p","/">>
        \o resource)

\* ("rds", "snapshot"): "https://{domain}/rds/home?region={region}#db-snapshot:id={resource}"
link_rds_snapshot(a, d) ==
    SomeIf(d.some,
        <<"h","t","t","p","s",":","/","/">>
        \o d.val
        \o <<"/","r","d","s","/","h","o","m","e","?","r","e","g","i","o","n","=">>
        \o a.region
        \o <<"#","d","b","-","s","n","a","p","s","h","o","t",":","i","d","=">>
        \o a.resource_id)

\* ("s3", ""), variant without the s3 subdomain
link_s3_without_subdomain(a, d) ==
    SomeIf(d.some,
        <<"h","t","t","p","s",":","/","/">>
        \o d.val
        \o <<"/","s","3","/","b","u","c","k","e","t","s","/">>
        \o a.resource_id)

\* ("s3", ""): "https://s3.{domain}/s3/buckets/{resource}"
link_s3(a, d) ==
    SomeIf(d.some,
        <<"h","t","t","p","s",":","/","/","s","3",".">>
        \o d.val
        \o <<"/","s","3","/","b","u","c","k","e","t","s","/">>
        \o a.resource_id)

\* ("secretsmanager", "secret"), variant without the filter on the suffix
link_secretsmanager_secret_any_suffix(a, d) ==
    LET parts == rsplit_once(a.resource_id, "-")
    IN SomeIf(d.some /\ parts.some,
        <<"h","t","t","p","s",":","/","/">>
        \o a.region
        \o <<".">>
        \o d.val
        \o <<"/">>
        \o a.service
        \o <<"/","s","e","c","r","e","t","?","n","a","m","e","=">>
        \o parts.first)

\* ("secretsmanager", "secret"): "https://{region}.{domain}/{service}/secret?name={name}"
link_secretsmanager_secret(a, d) ==
    LET parts == rsplit_once(a.resource_id, "-")
    IN SomeIf(d.some /\ parts.some /\ str_len(parts.second) = 6,
        <<"h","t","t","p","s",":","/","/">>
        \o a.region
        \o <<".">>
        \o d.val
        \o <<"/">>
        \o a.service
        \o <<"/","s","e","c","r","e","t","?","n","a","m","e","=">>
        \o parts.first)

\* ("wafv2", "global"):
\*   "https://{domain}/wafv2/homev2/web-acl/{resource}/overview?region=global"
link_wafv2_global(a, d) ==
    LET resource == replace(a.resource_id, <<"w","e","b","a","c","l","/">>, <<>>)
    IN SomeIf(d.some,
        <<"h","t","t","p","s",":","/","/">>
        \o d.val
        \o <<"/","w","a","f","v","2","/","h","o","m","e","v","2","/","w","e","b","-","a","c","l","/">>
        \o resource
        \o <<"/","o","v","e","r","v","i","e","w","?","r","e","g","i","o","n","=","g","l","o","b","a","l">>)

\* ("wafv2", "regional"):
\*   "https://{domain}/wafv2/homev2/web-acl/{resource}/overview?region={region}"
link_wafv2_regional(a, d) ==
    LET resource == replace(a.resource_id, <<"w","e","b","a","c","l","/">>, <<>>)
    IN SomeIf(d.some,
        <<"h","t","t","p","s",":","/","/">>
        \o d.val
        \o <<"/","w","a","f","v","2","/","h","o","m","e","v","2","/","w","e","b","-","a","c","l","/">>
        \o resource
        \o <<"/","o","v","e","r","v","i","e","w","?","r","e","g","i","o","n","=">>
        \o a.region)

\* ArnParts::link: the arms of match (self.service(), self.resource_type()),
\* on the key <<service, resource_type>>; what is not in the table is None
link_arms(a, service, resource_type) ==
    LET d   == domain(a)
        key == <<service, resource_type>>
    IN
    CASE key = <<<<"a","c","c","e","s","s","-","a","n","a","l","y","z","e","r">>, <<"a","n","a","l","y","z","e","r">>>> ->
            SomeIf(d.some,
                <<"h","t","t","p","s",":","/","/">>
                \o a.region
                \o <<".">>
                \o d.val
                \o <<"/","a","c","c","e","s","s","-","a","n","a","l","y","z","e","r","/","h","o","m","e","?","r","e","g","i","o","n","=">>
                \o a.region
                \o <<"#","/","a","n","a","l","y","z","e","r","/">>
                \o a.resource_id)
      [] key = <<<<"a","c","m">>, <<"c","e","r","t","i","f","i","c","a","t","e">>>> ->
            SomeIf(d.some,
                <<"h","t","t","p","s",":","/","/">>
                \o d.val
                \o <<"/","a","c","m","/","h","o","m","e","?","r","e","g","i","o","n","=">>
                \o a.region
                \o <<"#","/","?","i","d","=">>
                \o a.resource_id)
      [] key = <<<<"a","m","p","l","i","f","y">>, <<"a","p","p","s">>>> ->
            link_amplify_apps(a, d)
      [] key = <<<<"a","p","i","g","a","t","e","w","a","y">>, <<"r","e","s","t","a","p","i","s">>>> ->
            SomeIf(d.some,
                <<"h","t","t","p","s",":","/","/">>
                \o a.region
                \o <<".">>
                \o d.val
                \o <<"/","a","p","i","g","a","t","e","w","a","y","/","m","a","i","n","/","a","p","i","s","/">>
                \o a.resource_id
                \o <<"/","r","e","s","o","u","r","c","e","s","?","a","p","i","=">>
                \o a.resource_id
                \o <<"&","r","e","g","i","o","n","=">>
                \o a.region)
      [] key = <<<<"a","u","t","o","s","c","a","l","i","n","g">>, <<"a","u","t","o","S","c","a","l","i","n","g","G","r","o","u","p">>>> ->
            link_autoscaling_group(a, d)
      [] key = <<<<"b","a","c","k","u","p">>, <<"b","a","c","k","u","p","-","v","a","u","l","t">>>> ->
            SomeIf(d.some,
                <<"h","t","t","p","s",":","/","/">>
                \o d.val
                \o <<"/","b","a","c","k","u","p","/","h","o","m","e","?","r","e","g","i","o","n","=">>
                \o a.region
                \o <<"#","/","b","a","c","k","u","p","v","a","u","l","t","s","/","d","e","t","a","i","l","s","/">>
                \o a.resource_id)
      [] key = <<<<"c","l","o","u","d","f","r","o","n","t">>, <<"d","i","s","t","r","i","b","u","t","i","o","n">>>> ->
            SomeIf(d.some,
                <<"h","t","t","p","s",":","/","/">>
                \o d.val
                \o <<"/","c","l","o","u","d","f","r","o","n","t","/","v","4","/","h","o","m","e","#","/","d","i","s","t","r","i","b","u","t","i","o","n","s","/">>
                \o a.resource_id)
      [] key = <<<<"c","o","d","e","c","o","n","n","e","c","t","i","o","n","s">>, <<"c","o","n","n","e","c","t","i","o","n">>>> ->
            SomeIf(d.some,
                <<"h","t","t","p","s",":","/","/">>
                \o a.region
                \o <<".">>
                \o d.val
                \o <<"/","c","o","d","e","s","u","i","t","e","/","s","e","t","t","i","n","g","s","/">>
                \o a.account
                \o <<"/">>
                \o a.region
                \o <<"/">>
                \o a.service
                \o <<"/">>
                \o a.resource_type
                \o <<"s","/">>
                \o a.resource_id)
      [] key = <<<<"c","o","d","e","p","i","p","e","l","i","n","e">>, <<>>>> ->
            SomeIf(d.some,
                <<"h","t","t","p","s",":","/","/">>
                \o a.region
                \o <<".">>
                \o d.val
                \o <<"/","c","o","d","e","s","u","i","t","e","/","c","o","d","e","p","i","p","e","l","i","n","e","/","p","i","p","e","l","i","n","e","s","/">>
                \o a.resource_id
                \o <<"/","v","i","e","w","?","r","e","g","i","o","n","=">>
                \o a.region)
      [] key = <<<<"c","o","d","e","s","t","a","r","-","c","o","n","n","e","c","t","i","o","n","s">>, <<"c","o","n","n","e","c","t","i","o","n">>>> ->
            SomeIf(d.some,
                <<"h","t","t","p","s",":","/","/">>
                \o a.region
                \o <<".">>
                \o d.val
                \o <<"/","c","o","d","e","s","u","i","t","e","/","s","e","t","t","i","n","g","s","/">>
                \o a.account
                \o <<"/">>
                \o a.region
                \o <<"/">>
                \o a.service
                \o <<"/">>
                \o a.resource_type
                \o <<"s","/">>
                \o a.resource_id)
      [] key = <<<<"d","y","n","a","m","o","d","b">>, <<"t","a","b","l","e">>>> ->
            SomeIf(d.some,
                <<"h","t","t","p","s",":","/","/">>
                \o a.region
                \o <<".">>
                \o d.val
                \o <<"/","d","y","n","a","m","o","d","b","v","2","/","h","o","m","e","?","r","e","g","i","o","n","=">>
                \o a.region
                \o <<"#","t","a","b","l","e","?","n","a","m","e","=">>
                \o a.resource_id)
      [] key = <<<<"e","c","2">>, <<"i","m","a","g","e">>>> ->
            SomeIf(d.some,
                <<"h","t","t","p","s",":","/","/">>
                \o a.region
                \o <<".">>
                \o d.val
                \o <<"/","e","c","2","/","h","o","m","e","?","r","e","g","i","o","n","=">>
                \o a.region
                \o <<"#","I","m","a","g","e","D","e","t","a","i","l","s",":","i","m","a","g","e","I","d","=">>
                \o a.resource_id)
      [] key = <<<<"e","c","2">>, <<"i","n","s","t","a","n","c","e">>>> ->
            SomeIf(d.some,
                <<"h","t","t","p","s",":","/","/">>
                \o a.region
                \o <<".">>
                \o d.val
                \o <<"/","e","c","2","/","h","o","m","e","?","r","e","g","i","o","n","=">>
                \o a.region
                \o <<"#","I","n","s","t","a","n","c","e","D","e","t","a","i","l","s",":","i","n","s","t","a","n","c","e","I","d","=">>
                \o a.resource_id)
      [] key = <<<<"e","c","2">>, <<"l","a","u","n","c","h","-","t","e","m","p","l","a","t","e">>>> ->
            SomeIf(d.some,
                <<"h","t","t","p","s",":","/","/">>
                \o a.region
                \o <<".">>
                \o d.val
                \o <<"/","e","c","2","/","h","o","m","e","?","r","e","g","i","o","n","=">>
                \o a.region
                \o <<"#","L","a","u","n","c","h","T","e","m","p","l","a","t","e","D","e","t","a","i","l","s",":","l","a","u","n","c","h","T","e","m","p","l","a","t","e","I","d","=">>
                \o a.resource_id)
      [] key = <<<<"e","c","2">>, <<"n","a","t","g","a","t","e","w","a","y">>>> ->
            SomeIf(d.some,
                <<"h","t","t","p","s",":","/","/">>
                \o a.region
                \o <<".">>
                \o d.val
                \o <<"/","v","p","c","c","o","n","s","o","l","e","/","h","o","m","e","?","r","e","g","i","o","n","=">>
                \o a.region
                \o <<"#","N","a","t","G","a","t","e","w","a","y","D","e","t","a","i","l","s",":","n","a","t","G","a","t","e","w","a","y","I","d","=">>
                \o a.resource_id)
      [] key = <<<<"e","c","2">>, <<"s","e","c","u","r","i","t","y","-","g","r","o","u","p">>>> ->
            SomeIf(d.some,
                <<"h","t","t","p","s",":","/","/">>
                \o a.region
                \o <<".">>
                \o d.val
                \o <<"/","v","p","c","/","h","o","m","e","?","r","e","g","i","o","n","=">>
                \o a.region
                \o <<"#","S","e","c","u","r","i","t","y","G","r","o","u","p",":","g","r","o","u","p","I","d","=">>
                \o a.resource_id)
      [] key = <<<<"e","c","2">>, <<"s","n","a","p","s","h","o","t">>>> ->
            SomeIf(d.some,
                <<"h","t","t","p","s",":","/","/">>
                \o a.region
                \o <<".">>
                \o d.val
                \o <<"/","e","c","2","/","h","o","m","e","?","r","e","g","i","o","n","=">>
                \o a.region
                \o <<"#","S","n","a","p","s","h","o","t","D","e","t","a","i","l","s",":","s","n","a","p","s","h","o","t","I","d","=">>
                \o a.resource_id)
      [] key = <<<<"e","c","2">>, <<"s","u","b","n","e","t">>>> ->
            SomeIf(d.some,
                <<"h","t","t","p","s",":","/","/">>
                \o a.region
                \o <<".">>
                \o d.val
                \o <<"/","v","p","c","/","h","o","m","e","?","r","e","g","i","o","n","=">>
                \o a.region
                \o <<"#","S","u","b","n","e","t","D","e","t","a","i","l","s",":","s","u","b","n","e","t","I","d","=">>
                \o a.resource_id)
      [] key = <<<<"e","c","2">>, <<"v","o","l","u","m","e">>>> ->
            SomeIf(d.some,
                <<"h","t","t","p","s",":","/","/">>
                \o a.region
                \o <<".">>
                \o d.val
                \o <<"/","e","c","2","/","h","o","m","e","?","r","e","g","i","o","n","=">>
                \o a.region
                \o <<"#","V","o","l","u","m","e","D","e","t","a","i","l","s",":","v","o","l","u","m","e","I","d","=">>
                \o a.resource_id)
      [] key = <<<<"e","c","2">>, <<"v","p","c">>>> ->
            SomeIf(d.some,
                <<"h","t","t","p","s",":","/","/">>
                \o a.region
                \o <<".">>
                \o d.val
                \o <<"/","v","p","c","/","h","o","m","e","?","r","e","g","i","o","n","=">>
                \o a.region
                \o <<"#","V","p","c","D","e","t","a","i","l","s",":","V","p","c","I","d","=">>
                \o a.resource_id)
      [] key = <<<<"e","c","2">>, <<"v","p","c","-","e","n","d","p","o","i","n","t">>>> ->
            SomeIf(d.some,
                <<"h","t","t","p","s",":","/","/">>
                \o a.region
                \o <<".">>
                \o d.val
                \o <<"/","v","p","c","c","o","n","s","o","l","e","/","h","o","m","e","?","r","e","g","i","o","n","=">>
                \o a.region
                \o <<"#","E","n","d","p","o","i","n","t","D","e","t","a","i","l","s",":","v","p","c","E","n","d","p","o","i","n","t","I","d","=">>
                \o a.resource_id)
      [] key = <<<<"e","c","s">>, <<"c","l","u","s","t","e","r">>>> ->
            SomeIf(d.some,
                <<"h","t","t","p","s",":","/","/">>
                \o a.region
                \o <<".">>
                \o d.val
                \o <<"/","e","c","s","/","v","2","/","c","l","u","s","t","e","r","s","/">>
                \o a.resource_id
                \o <<"?","r","e","g","i","o","n","=">>
                \o a.region)
      [] key = <<<<"e","c","s">>, <<"s","e","r","v","i","c","e">>>> ->
            link_ecs_service(a, d)
      [] key = <<<<"e","c","s">>, <<"t","a","s","k">>>> ->
            link_ecs_task(a, d)
      [] key = <<<<"e","c","s">>, <<"t","a","s","k","-","d","e","f","i","n","i","t","i","o","n">>>> ->
            SomeIf(d.some,
                <<"h","t","t","p","s",":","/","/">>
                \o a.region
                \o <<".">>
                \o d.val
                \o <<"/","e","c","s","/","v","2","/","t","a","s","k","-","d","e","f","i","n","i","t","i","o","n","s","/">>
                \o a.resource_id
                \o <<"/">>
                \o a.resource_revision
                \o <<"?","r","e","g","i","o","n","=">>
                \o a.region)
      [] key = <<<<"e","k","s">>, <<"c","l","u","s","t","e","r">>>> ->
            SomeIf(d.some,
                <<"h","t","t","p","s",":","/","/">>
                \o d.val
                \o <<"/","e","k","s","/","h","o","m","e","?","r","e","g","i","o","n","=">>
                \o a.region
                \o <<"#","/","c","l","u","s","t","e","r","s","/">>
                \o a.resource_id)
      [] key = <<<<"e","k","s">>, <<"n","o","d","e","g","r","o","u","p">>>> ->
            link_eks_nodegroup(a, d)
      [] key = <<<<"e","l","a","s","t","i","c","l","o","a","d","b","a","l","a","n","c","i","n","g">>, <<"l","o","a","d","b","a","l","a","n","c","e","r">>>> ->
            SomeIf(d.some,
                <<"h","t","t","p","s",":","/","/">>
                \o a.region
                \o <<".">>
                \o d.val
                \o <<"/","e","c","2","/","h","o","m","e","?","r","e","g","i","o","n","=">>
                \o a.region
                \o <<"#","L","o","a","d","B","a","l","a","n","c","e","r",":","l","o","a","d","B","a","l","a","n","c","e","r","A","r","n","=">>
                \o build(a))
      [] key = <<<<"f","i","r","e","h","o","s","e">>, <<"d","e","l","i","v","e","r","y","s","t","r","e","a","m">>>> ->
            SomeIf(d.some,
                <<"h","t","t","p","s",":","/","/">>
                \o d.val
                \o <<"/","f","i","r","e","h","o","s","e","/","h","o","m","e","?","r","e","g","i","o","n","=">>
                \o a.region
                \o <<"#","/","d","e","t","a","i","l","s","/">>
                \o a.resource_id
                \o <<"/","m","o","n","i","t","o","r","i","n","g">>)
      [] key = <<<<"i","a","m">>, <<"g","r","o","u","p">>>> ->
            link_iam_group(a, d)
      [] key = <<<<"i","a","m">>, <<"o","i","d","c","-","p","r","o","v","i","d","e","r">>>> ->
            SomeIf(d.some,
                <<"h","t","t","p","s",":","/","/">>
                \o d.val
                \o <<"/","i","a","m","/","h","o","m","e","?","#","/","p","r","o","v","i","d","e","r","s","/">>
                \o build(a))
      [] key = <<<<"i","a","m">>, <<"p","o","l","i","c","y">>>> ->
            SomeIf(d.some,
                <<"h","t","t","p","s",":","/","/">>
                \o d.val
                \o <<"/","i","a","m","/","h","o","m","e","?","#","/","p","o","l","i","c","i","e","s","/">>
                \o build(a))
      [] key = <<<<"i","a","m">>, <<"r","o","l","e">>>> ->
            link_iam_role(a, d)
      [] key = <<<<"i","a","m">>, <<"u","s","e","r">>>> ->
            SomeIf(d.some,
                <<"h","t","t","p","s",":","/","/">>
                \o d.val
                \o <<"/","i","a","m","/","h","o","m","e","?","#","/","u","s","e","r","s","/">>
                \o a.resource_id)
      [] key = <<<<"k","m","s">>, <<"k","e","y">>>> ->
            SomeIf(d.some,
                <<"h","t","t","p","s",":","/","/">>
                \o d.val
                \o <<"/","k","m","s","/","h","o","m","e","?","r","e","g","i","o","n","=">>
                \o a.region
                \o <<"#","/","k","m","s","/","k","e","y","s","/">>
                \o a.resource_id)
      [] key = <<<<"l","a","m","b","d","a">>, <<"f","u","n","c","t","i","o","n">>>> ->
            SomeIf(d.some,
                <<"h","t","t","p","s",":","/","/">>
                \o a.region
                \o <<".">>
                \o d.val
                \o <<"/","l","a","m","b","d","a","/","h","o","m","e","?","r","e","g","i","o","n","=">>
                \o a.region
                \o <<"#","/","f","u","n","c","t","i","o","n","s","/">>
                \o a.resource_id)
      [] key = <<<<"l","a","m","b","d","a">>, <<"l","a","y","e","r">>>> ->
            link_lambda_layer(a, d)
      [] key = <<<<"l","o","g","s">>, <<"l","o","g","-","g","r","o","u","p">>>> ->
            link_logs_log_group(a, d)
      [] key = <<<<"m","e","d","i","a","l","i","v","e">>, <<"c","h","a","n","n","e","l">>>> ->
            SomeIf(d.some,
                <<"h","t","t","p","s",":","/","/">>
                \o a.region
                \o <<".">>
                \o d.val
                \o <<"/","m","e","d","i","a","l","i","v","e","/","h","o","m","e","?","r","e","g","i","o","n","=">>
                \o a.region
                \o <<"#","/","c","h","a","n","n","e","l","s","/">>
                \o a.resource_id)
      [] key = <<<<"r","d","s">>, <<"c","l","u","s","t","e","r">>>> ->
            SomeIf(d.some,
                <<"h","t","t","p","s",":","/","/">>
                \o d.val
                \o <<"/","r","d","s","/","h","o","m","e","?","r","e","g","i","o","n","=">>
                \o a.region
                \o <<"#","d","a","t","a","b","a","s","e",":","i","d","=">>
                \o a.resource_id
                \o <<";","i","s","-","c","l","u","s","t","e","r","=","t","r","u","e">>)
      [] key = <<<<"r","d","s">>, <<"d","b">>>> ->
            SomeIf(d.some,
                <<"h","t","t","p","s",":","/","/">>
                \o d.val
                \o <<"/","r","d","s","/","h","o","m","e","?","r","e","g","i","o","n","=">>
                \o a.region
                \o <<"#","d","a","t","a","b","a","s","e",":","i","d","=">>
                \o a.resource_id)
      [] key = <<<<"r","d","s">>, <<"o","g">>>> ->
            SomeIf(d.some,
                <<"h","t","t","p","s",":","/","/">>
                \o d.val
                \o <<"/","r","d","s","/","h","o","m","e","?","r","e","g","i","o","n","=">>
                \o a.region
                \o <<"#","o","p","t","i","o","n","-","g","r","o","u","p","-","d","e","t","a","i","l","s",":","o","p","t","i","o","n","-","g","r","o","u","p","-","n","a","m","e","=">>
                \o a.resource_id)
      [] key = <<<<"r","d","s">>, <<"s","n","a","p","s","h","o","t">>>> ->
            link_rds_snapshot(a, d)
      [] key = <<<<"r","d","s">>, <<"s","u","b","g","r","p">>>> ->
            SomeIf(d.some,
                <<"h","t","t","p","s",":","/","/">>
                \o d.val
                \o <<"/","r","d","s","/","h","o","m","e","?","r","e","g","i","o","n","=">>
                \o a.region
                \o <<"#","d","b","-","s","u","b","n","e","t","-","g","r","o","u","p",":","i","d","=">>
                \o a.resource_id)
      [] key = <<<<"r","o","u","t","e","5","3">>, <<"h","e","a","l","t","h","c","h","e","c","k">>>> ->
            SomeIf(d.some,
                <<"h","t","t","p","s",":","/","/">>
                \o d.val
                \o <<"/","r","o","u","t","e","5","3","/","h","e","a","l","t","h","c","h","e","c","k","s","/","h","o","m","e">>)
      [] key = <<<<"r","o","u","t","e","5","3">>, <<"h","o","s","t","e","d","z","o","n","e">>>> ->
            SomeIf(d.some,
                <<"h","t","t","p","s",":","/","/">>
                \o d.val
                \o <<"/","r","o","u","t","e","5","3","/","h","o","m","e","?","#","r","e","s","o","u","r","c","e","-","r","e","c","o","r","d","-","s","e","t","s",":">>
                \o a.resource_id)
      [] key = <<<<"r","o","u","t","e","5","3">>, <<"t","r","a","f","f","i","c","p","o","l","i","c","y">>>> ->
            SomeIf(d.some,
                <<"h","t","t","p","s",":","/","/">>
                \o d.val
                \o <<"/","r","o","u","t","e","5","3","/","t","r","a","f","f","i","c","f","l","o","w","/","h","o","m","e","#","/","p","o","l","i","c","y","/">>
                \o a.resource_id)
      [] key = <<<<"r","o","u","t","e","5","3">>, <<"t","r","a","f","f","i","c","p","o","l","i","c","y","i","n","s","t","a","n","c","e">>>> ->
            SomeIf(d.some,
                <<"h","t","t","p","s",":","/","/">>
                \o d.val
                \o <<"/","r","o","u","t","e","5","3","/","t","r","a","f","f","i","c","f","l","o","w","/","h","o","m","e","#","/","m","o","d","i","f","y","-","r","e","c","o","r","d","s","/","e","d","i","t","/">>
                \o a.resource_id)
      [] key = <<<<"s","3">>, <<>>>> ->
            link_s3(a, d)
      [] key = <<<<"s","e","c","r","e","t","s","m","a","n","a","g","e","r">>, <<"s","e","c","r","e","t">>>> ->
            link_secretsmanager_secret(a, d)
      [] key = <<<<"s","n","s">>, <<>>>> ->
            SomeIf(d.some,
                <<"h","t","t","p","s",":","/","/">>
                \o d.val
                \o <<"/","s","n","s","/","v","3","/","h","o","m","e","?","r","e","g","i","o","n","=">>
                \o a.region
                \o <<"#","/","t","o","p","i","c","/">>
                \o build(a))
      [] key = <<<<"s","q","s">>, <<>>>> ->
            SomeIf(d.some,
                <<"h","t","t","p","s",":","/","/">>
                \o a.region
                \o <<".">>
                \o d.val
                \o <<"/","s","q","s","/","v","2","/","h","o","m","e","?","r","e","g","i","o","n","=">>
                \o a.region
                \o <<"#","/","q","u","e","u","e","s","/","h","t","t","p","s","%","3","A","%","2","F","%","2","F","s","q","s",".">>
                \o a.region
                \o <<".","a","m","a","z","o","n","a","w","s",".","c","o","m","%","2","F">>
                \o a.account
                \o <<"%","2","F">>
                \o a.resource_id)
      [] key = <<<<"s","t","a","t","e","s">>, <<"e","x","e","c","u","t","i","o","n">>>> ->
            SomeIf(d.some,
                <<"h","t","t","p","s",":","/","/">>
                \o a.region
                \o <<".">>
                \o d.val
                \o <<"/","s","t","a","t","e","s","/","h","o","m","e","?","r","e","g","i","o","n","=">>
                \o a.region
                \o <<"#","/","v","2","/","e","x","e","c","u","t","i","o","n","s","/","d","e","t","a","i","l","s","/">>
                \o build(a))
      [] key = <<<<"s","t","a","t","e","s">>, <<"s","t","a","t","e","M","a","c","h","i","n","e">>>> ->
            SomeIf(d.some,
                <<"h","t","t","p","s",":","/","/">>
                \o a.region
                \o <<".">>
                \o d.val
                \o <<"/","s","t","a","t","e","s","/","h","o","m","e","?","r","e","g","i","o","n","=">>
                \o a.region
                \o <<"#","/","s","t","a","t","e","m","a","c","h","i","n","e","s","/","v","i","e","w","/">>
                \o build(a))
      [] key = <<<<"w","a","f","v","2">>, <<"g","l","o","b","a","l">>>> ->
            link_wafv2_global(a, d)
      [] key = <<<<"w","a","f","v","2">>, <<"r","e","g","i","o","n","a","l">>>> ->
            link_wafv2_regional(a, d)
      [] OTHER -> NoLink

\* ArnParts::link, variant whose s3 arm takes any resource type: ("s3", _)
link_s3_any_type(a) ==
    link_arms(a, a.service, IF a.service = <<"s","3">> THEN <<>> ELSE a.resource_type)

\* ArnParts::link
link(a) == link_arms(a, a.service, a.resource_type)

\* arn_to_link, variant that reports a missing link as a parse error
arn_to_link_parse_error(arn) ==
    LET r == ArnNew(arn)
    IN IF r.tag = "Err" THEN r
       ELSE IF link(r.arn).some THEN [tag |-> "Ok", link |-> link(r.arn).url]
       ELSE Err("ParseError")

\* arn_to_link: Arn::new(arn)?.link().ok_or(Error::NoLink)
arn_to_link(arn) ==
    LET r == ArnNew(arn)
    IN IF r.tag = "Err" THEN r
       ELSE IF link(r.arn).some THEN [tag |-> "Ok", link |-> link(r.arn).url]
       ELSE Err("NoLink")

----------------------------------------------------------------------------
(* The inputs.  Every input is a head followed by a body over the          *)
(* delimiters and a letter.  One family takes these as they are, one       *)
(* inserts a further character at any position, one puts whitespace at the *)
(* ends, and one fills a head up to a length around the limit.             *)

MaxBodyLen == 5

MaxInsertBody == 1

Heads ==
    { <<"a","r","n",":","a","w","s",":","s","3",":","u","-","1",":","1",":">>,
      <<"a","r","n",":","a","w","s",":">> \o S_apigateway \o <<":",":",":">>,
      <<"a","r","n",":",":","s","3",":",":",":">>,
      <<"a","r","n",":","a","w","s",":","s","3",":","a",".","b",":","1",":">>,
      <<"a","r","n",":","a","w","s",":","s","3",":","a","@","b",":",":">>,
      <<"a","r","n",":","a","w","s",":","s","3",":","a",".","b">>,
      <<"a","r","n",":","a","w","s",":","s","3",":">>,
      <<"A","R","N",":","a","w","s",":","s","3",":",":",":">>,
      <<"n","o","-","a","r","n">>,
      <<>> }

BodyChars == {"t", ":", "/"}

BodiesUpTo(n) == UNION {[1..k -> BodyChars] : k \in 0..n}

InsertChars == {"!", " ", "U+00E9", "."}

FillChars == {"t", "!", "U+00E9"}

WsSeqs == {<<>>, <<" ">>, <<"U+00A0", "\n">>}

WsPairs == (WsSeqs \X WsSeqs) \ {<< <<>>, <<>> >>}

InsertAt(s, p, c) == SubSeq(s, 1, p) \o <<c>> \o SubSeq(s, p + 1, Len(s))

Fill(s, c, n) == s \o [i \in 1..(n - Len(s)) |-> c]

ShortInputs == {h \o b : h \in Heads, b \in BodiesUpTo(MaxBodyLen)}

InsertInputs ==
    UNION {{InsertAt(h \o b, p, c) : p \in 0..Len(h \o b), c \in InsertChars} :
           h \in Heads, b \in BodiesUpTo(MaxInsertBody)}

WsInputs ==
    {w[1] \o h \o b \o w[2] : h \in Heads, b \in BodiesUpTo(MaxInsertBody), w \in WsPairs}

LongInputs ==
    {w[1] \o Fill(h, c, n) \o w[2] :
         h \in Heads, c \in FillChars,
         n \in {MaxArnLen - 1, MaxArnLen, MaxArnLen + 1},
         w \in {<< <<>>, <<>> >>, << <<" ">>, <<>> >>, << <<>>, <<"U+00A0", "\n">> >>}}

None == [tag |-> "None"]

NoRecord == [tag |-> "None"]

InitLinkVars ==
    /\ link_result = NoLink
    /\ a2l_result = None
    /\ owned = NoRecord
    /\ owned_link = NoLink
    /\ owned_built = <<>>
    /\ custom = NoRecord
    /\ custom_link = NoLink

InitCliVars ==
    /\ cli_stdin = FALSE
    /\ cli_quiet = FALSE
    /\ cli_lines = <<>>
    /\ cli_next = 1
    /\ all_ok = TRUE
    /\ stdout = <<>>
    /\ stderr = <<>>
    /\ exit_code = -1

Init ==
    /\ arn_str \in ShortInputs \cup InsertInputs \cup WsInputs \cup LongInputs
    /\ pc = "start"
    /\ result = None
    /\ built = <<>>
    /\ reparsed = None
    /\ rebuilt = <<>>
    /\ padded_str = <<>>
    /\ padded_result = None
    /\ InitLinkVars
    /\ InitCliVars

----------------------------------------------------------------------------
(* The operations *)

\* Arn::new(arn_str)
New ==
    /\ pc = "start"
    /\ result' = ArnNew(arn_str)
    /\ pc' = "parsed"
    /\ UNCHANGED <<arn_str, built, reparsed, rebuilt, padded_str, padded_result>>
    /\ UNCHANGED <<linkvars, clivars>>

\* arn.build() on the record Arn::new returned
Build ==
    /\ pc = "parsed"
    /\ result.tag = "Ok"
    /\ built' = build(result.arn)
    /\ pc' = "built"
    /\ UNCHANGED <<arn_str, result, reparsed, rebuilt, padded_str, padded_result>>
    /\ UNCHANGED <<linkvars, clivars>>

\* Arn::new(arn.build())
Reparse ==
    /\ pc = "built"
    /\ reparsed' = ArnNew(built)
    /\ pc' = "reparsed"
    /\ UNCHANGED <<arn_str, result, built, rebuilt, padded_str, padded_result>>
    /\ UNCHANGED <<linkvars, clivars>>

\* Arn::new(arn.build()).build()
Rebuild ==
    /\ pc = "reparsed"
    /\ reparsed.tag = "Ok"
    /\ rebuilt' = build(reparsed.arn)
    /\ pc' = "rebuilt"
    /\ UNCHANGED <<arn_str, result, built, reparsed, padded_str, padded_result>>
    /\ UNCHANGED <<linkvars, clivars>>

\* Arn::new on the same input with whitespace put around it
NewPadded ==
    /\ pc = "parsed"
    /\ \E w \in {<< <<" ">>, <<>> >>, << <<>>, <<"U+00A0", "\n">> >>, << <<"\n">>, <<" ">> >>} :
           /\ padded_str' = w[1] \o arn_str \o w[2]
           /\ padded_result' = ArnNew(w[1] \o arn_str \o w[2])
    /\ pc' = "padded"
    /\ UNCHANGED <<arn_str, result, built, reparsed, rebuilt>>
    /\ UNCHANGED <<linkvars, clivars>>

Next == New \/ Build \/ Reparse \/ Rebuild \/ NewPadded

Spec == Init /\ [][Next]_vars

----------------------------------------------------------------------------
(* The owned record *)

\* Arn::to_owned, variant that does not copy has_path
to_owned_without_path(a) ==
    [partition |-> a.partition, service |-> a.service, region |-> a.region,
     account |-> a.account, resource_type |-> a.resource_type,
     resource_id |-> a.resource_id, resource_revision |-> a.resource_revision,
     has_path |-> FALSE]

\* Arn::to_owned
to_owned(a) ==
    [partition |-> a.partition, service |-> a.service, region |-> a.region,
     account |-> a.account, resource_type |-> a.resource_type,
     resource_id |-> a.resource_id, resource_revision |-> a.resource_revision,
     has_path |-> a.has_path]

\* impl PartialEq<ArnOwned> for Arn
arn_eq_owned(a, o) ==
    /\ a.partition = o.partition
    /\ a.service = o.service
    /\ a.region = o.region
    /\ a.account = o.account
    /\ a.resource_type = o.resource_type
    /\ a.resource_id = o.resource_id
    /\ a.resource_revision = o.resource_revision
    /\ a.has_path = o.has_path

\* impl PartialEq<Arn> for ArnOwned: other == self
owned_eq_arn(o, a) == arn_eq_owned(a, o)

----------------------------------------------------------------------------
(* The inputs of the link rules: for every pair of the table and some      *)
(* pairs outside it, every partition, the type followed by a short tail;   *)
(* the identifiers the documentation gives; inputs Arn::new rejects; and   *)
(* records written by hand.                                                *)

\* what follows the resource type in the inputs made from the table
LinkTails ==
    { <<>>, <<"t">>, <<":">>, <<"/">>,
      <<":","t">>, <<"/","t">>,
      <<":","t","/","t">>, <<"/","t","/","t">>,
      <<":","t",":","t">>, <<"/","t",":","t">>,
      <<"/","t","/","t","/","t">> }

\* the (service, resource_type) pairs of the arms of ArnParts::link
TablePairs == {
    <<<<"a","c","c","e","s","s","-","a","n","a","l","y","z","e","r">>, <<"a","n","a","l","y","z","e","r">>>>,
    <<<<"a","c","m">>, <<"c","e","r","t","i","f","i","c","a","t","e">>>>,
    <<<<"a","m","p","l","i","f","y">>, <<"a","p","p","s">>>>,
    <<<<"a","p","i","g","a","t","e","w","a","y">>, <<"r","e","s","t","a","p","i","s">>>>,
    <<<<"a","u","t","o","s","c","a","l","i","n","g">>, <<"a","u","t","o","S","c","a","l","i","n","g","G","r","o","u","p">>>>,
    <<<<"b","a","c","k","u","p">>, <<"b","a","c","k","u","p","-","v","a","u","l","t">>>>,
    <<<<"c","l","o","u","d","f","r","o","n","t">>, <<"d","i","s","t","r","i","b","u","t","i","o","n">>>>,
    <<<<"c","o","d","e","c","o","n","n","e","c","t","i","o","n","s">>, <<"c","o","n","n","e","c","t","i","o","n">>>>,
    <<<<"c","o","d","e","p","i","p","e","l","i","n","e">>, <<>>>>,
    <<<<"c","o","d","e","s","t","a","r","-","c","o","n","n","e","c","t","i","o","n","s">>, <<"c","o","n","n","e","c","t","i","o","n">>>>,
    <<<<"d","y","n","a","m","o","d","b">>, <<"t","a","b","l","e">>>>,
    <<<<"e","c","2">>, <<"i","m","a","g","e">>>>,
    <<<<"e","c","2">>, <<"i","n","s","t","a","n","c","e">>>>,
    <<<<"e","c","2">>, <<"l","a","u","n","c","h","-","t","e","m","p","l","a","t","e">>>>,
    <<<<"e","c","2">>, <<"n","a","t","g","a","t","e","w","a","y">>>>,
    <<<<"e","c","2">>, <<"s","e","c","u","r","i","t","y","-","g","r","o","u","p">>>>,
    <<<<"e","c","2">>, <<"s","n","a","p","s","h","o","t">>>>,
    <<<<"e","c","2">>, <<"s","u","b","n","e","t">>>>,
    <<<<"e","c","2">>, <<"v","o","l","u","m","e">>>>,
    <<<<"e","c","2">>, <<"v","p","c">>>>,
    <<<<"e","c","2">>, <<"v","p","c","-","e","n","d","p","o","i","n","t">>>>,
    <<<<"e","c","s">>, <<"c","l","u","s","t","e","r">>>>,
    <<<<"e","c","s">>, <<"s","e","r","v","i","c","e">>>>,
    <<<<"e","c","s">>, <<"t","a","s","k">>>>,
    <<<<"e","c","s">>, <<"t","a","s","k","-","d","e","f","i","n","i","t","i","o","n">>>>,
    <<<<"e","k","s">>, <<"c","l","u","s","t","e","r">>>>,
    <<<<"e","k","s">>, <<"n","o","d","e","g","r","o","u","p">>>>,
    <<<<"e","l","a","s","t","i","c","l","o","a","d","b","a","l","a","n","c","i","n","g">>, <<"l","o","a","d","b","a","l","a","n","c","e","r">>>>,
    <<<<"f","i","r","e","h","o","s","e">>, <<"d","e","l","i","v","e","r","y","s","t","r","e","a","m">>>>,
    <<<<"i","a","m">>, <<"g","r","o","u","p">>>>,
    <<<<"i","a","m">>, <<"o","i","d","c","-","p","r","o","v","i","d","e","r">>>>,
    <<<<"i","a","m">>, <<"p","o","l","i","c","y">>>>,
    <<<<"i","a","m">>, <<"r","o","l","e">>>>,
    <<<<"i","a","m">>, <<"u","s","e","r">>>>,
    <<<<"k","m","s">>, <<"k","e","y">>>>,
    <<<<"l","a","m","b","d","a">>, <<"f","u","n","c","t","i","o","n">>>>,
    <<<<"l","a","m","b","d","a">>, <<"l","a","y","e","r">>>>,
    <<<<"l","o","g","s">>, <<"l","o","g","-","g","r","o","u","p">>>>,
    <<<<"m","e","d","i","a","l","i","v","e">>, <<"c","h","a","n","n","e","l">>>>,
    <<<<"r","d","s">>, <<"c","l","u","s","t","e","r">>>>,
    <<<<"r","d","s">>, <<"d","b">>>>,
    <<<<"r","d","s">>, <<"o","g">>>>,
    <<<<"r","d","s">>, <<"s","n","a","p","s","h","o","t">>>>,
    <<<<"r","d","s">>, <<"s","u","b","g","r","p">>>>,
    <<<<"r","o","u","t","e","5","3">>, <<"h","e","a","l","t","h","c","h","e","c","k">>>>,
    <<<<"r","o","u","t","e","5","3">>, <<"h","o","s","t","e","d","z","o","n","e">>>>,
    <<<<"r","o","u","t","e","5","3">>, <<"t","r","a","f","f","i","c","p","o","l","i","c","y">>>>,
    <<<<"r","o","u","t","e","5","3">>, <<"t","r","a","f","f","i","c","p","o","l","i","c","y","i","n","s","t","a","n","c","e">>>>,
    <<<<"s","3">>, <<>>>>,
    <<<<"s","e","c","r","e","t","s","m","a","n","a","g","e","r">>, <<"s","e","c","r","e","t">>>>,
    <<<<"s","n","s">>, <<>>>>,
    <<<<"s","q","s">>, <<>>>>,
    <<<<"s","t","a","t","e","s">>, <<"e","x","e","c","u","t","i","o","n">>>>,
    <<<<"s","t","a","t","e","s">>, <<"s","t","a","t","e","M","a","c","h","i","n","e">>>>,
    <<<<"w","a","f","v","2">>, <<"g","l","o","b","a","l">>>>,
    <<<<"w","a","f","v","2">>, <<"r","e","g","i","o","n","a","l">>>> }

OtherPairs == {
    <<<<"d","o","e","s","-","n","o","t","-","e","x","i","s","t">>, <<>>>>,
    <<<<"S","3">>, <<>>>>,
    <<<<"s","3">>, <<"b","u","c","k","e","t">>>>,
    <<<<"E","C","2">>, <<"i","n","s","t","a","n","c","e">>>>,
    <<<<"e","c","2">>, <<"I","n","s","t","a","n","c","e">>>>,
    <<<<"r","d","s">>, <<>>>> }

Partitions == {S_aws, S_aws_cn, S_aws_us_gov, <<"A","W","S">>, <<>>}

S_us_east_1 == <<"u","s","-","e","a","s","t","-","1">>

S_12345 == <<"1","2","3","4","5">>

ArnText(partition, service, region, account, tail) ==
    <<"a","r","n",":">> \o partition \o <<":">> \o service \o <<":">> \o region
    \o <<":">> \o account \o <<":">> \o tail

TableInputs ==
    {ArnText(p, k[1], S_us_east_1, S_12345, k[2] \o b) :
         p \in Partitions, k \in TablePairs \cup OtherPairs, b \in LinkTails}

X_s3_abc123 == <<"a","r","n",":","a","w","s",":","s","3",":",":",":","a","b","c","1","2","3">>

X_rds_snapshot == <<"a","r","n",":","a","w","s",":","r","d","s",":","u","s","-","e","a","s","t","-","1",":","1","2","3","4","5",":","s","n","a","p","s","h","o","t",":","r","d","s",":","d","b">>

X_does_not_exist == <<"a","r","n",":","a","w","s",":","d","o","e","s","-","n","o","t","-","e","x","i","s","t",":",":",":","e","x","a","m","p","l","e">>

X_not_an_arn == <<"t","h","i","s","-","i","s","-","n","o","t","-","a","n","-","a","r","n">>

X_bad_region == <<"a","r","n",":","a","w","s",":","s","3",":","a",".","b",":",":","a","b","c","1","2","3">>

X_bad_character == <<"a","r","n",":","a","w","s",":","s","3",":",":",":","a","b","c","!","1","2","3">>

\* bucket names of the s3 form arn:<partition>:s3:::<name>
S3Names == {<<"a","b","c","1","2","3">>, <<"a",".","b","-","c","_","1">>, <<>>}

S3Inputs == {ArnText(p, <<"s","3">>, <<>>, <<>>, n) : p \in Partitions, n \in S3Names}

\* a region that would put other text in front of the console domain
X_region_userinfo == <<"a","r","n",":","a","w","s",":","s","q","s",":","a","@","b",":","1","2","3","4","5",":","q">>

ExampleInputs ==
    {X_region_userinfo, X_s3_abc123, X_rds_snapshot, X_does_not_exist, X_not_an_arn, X_bad_region,
     X_bad_character,
     <<" ">> \o X_s3_abc123 \o <<"\n">>,
     Fill(X_s3_abc123, "c", MaxArnLen),
     Fill(X_s3_abc123, "c", MaxArnLen + 1),
     Fill(X_bad_character, "!", MaxArnLen + 1)}

\* tails of every form after a type of the table
TailInputs ==
    {ArnText(S_aws, <<"r","d","s">>, S_us_east_1, S_12345, <<"s","n","a","p","s","h","o","t">> \o b) :
         b \in BodiesUpTo(MaxBodyLen)}

LinkInputs == TableInputs \cup ExampleInputs \cup TailInputs \cup S3Inputs

\* records of a hand-written implementation of ArnParts
CustomRecords ==
    [partition : {S_aws, S_aws_cn, <<"x">>},
     service : {<<"s","3">>, <<"S","3">>},
     region : {<<>>, <<"a",".","b">>},
     account : {<<>>},
     resource_type : {<<>>, <<"b">>},
     resource_id : {<<"a","b","c","1","2","3">>, <<"a","/","b">>},
     resource_revision : {<<>>},
     has_path : BOOLEAN]

InitLink ==
    /\ \/ arn_str \in LinkInputs /\ pc = "start" /\ custom = NoRecord
       \/ arn_str = <<>> /\ pc = "custom" /\ custom \in CustomRecords
    /\ result = None
    /\ built = <<>>
    /\ reparsed = None
    /\ rebuilt = <<>>
    /\ padded_str = <<>>
    /\ padded_result = None
    /\ link_result = NoLink
    /\ a2l_result = None
    /\ owned = NoRecord
    /\ owned_link = NoLink
    /\ owned_built = <<>>
    /\ custom_link = NoLink
    /\ InitCliVars

----------------------------------------------------------------------------
(* The operations on a parsed record *)

\* arn.link() and arn.build() on the record Arn::new returned
Link ==
    /\ pc = "parsed"
    /\ result.tag = "Ok"
    /\ link_result' = link(result.arn)
    /\ built' = build(result.arn)
    /\ pc' = "linked"
    /\ UNCHANGED <<arn_str, result, reparsed, rebuilt, padded_str, padded_result>>
    /\ UNCHANGED <<a2l_result, owned, owned_link, owned_built, custom, custom_link>>
    /\ UNCHANGED clivars

\* arn_to_link(arn_str), after Arn::new and link() on the same input
ArnToLink ==
    /\ pc = "linked" \/ (pc = "parsed" /\ result.tag = "Err")
    /\ a2l_result' = arn_to_link(arn_str)
    /\ pc' = "a2l"
    /\ UNCHANGED <<arn_str, result, built, reparsed, rebuilt, padded_str, padded_result>>
    /\ UNCHANGED <<link_result, owned, owned_link, owned_built, custom, custom_link>>
    /\ UNCHANGED clivars

\* arn.to_owned(), then link() and build() on the owned record
ToOwned ==
    /\ pc = "linked"
    /\ owned' = to_owned(result.arn)
    /\ owned_link' = link(to_owned(result.arn))
    /\ owned_built' = build(to_owned(result.arn))
    /\ pc' = "owned"
    /\ UNCHANGED <<arn_str, result, built, reparsed, rebuilt, padded_str, padded_result>>
    /\ UNCHANGED <<link_result, a2l_result, custom, custom_link>>
    /\ UNCHANGED clivars

\* link() on a record of a hand-written implementation of ArnParts
LinkCustom ==
    /\ pc = "custom"
    /\ custom_link' = link(custom)
    /\ pc' = "custom_linked"
    /\ UNCHANGED <<arn_str, result, built, reparsed, rebuilt, padded_str, padded_result>>
    /\ UNCHANGED <<link_result, a2l_result, owned, owned_link, owned_built, custom>>
    /\ UNCHANGED clivars

NextLink == New \/ Link \/ ArnToLink \/ ToOwned \/ LinkCustom

SpecLink == InitLink /\ [][NextLink]_vars

----------------------------------------------------------------------------
(* The rules of the table that take resource_id apart *)

MaxRuleIdLen == 4

MaxLogsIdLen == 4

MaxSecretIdLen == 8

MaxJobPartLen == 2

RulePartitions == {S_aws, <<"x">>}

\* the pairs whose rule splits resource_id at ':' or '/', or takes its last segment
SplitPairs == {
    <<<<"e","c","s">>, <<"t","a","s","k">>>>,
    <<<<"e","c","s">>, <<"s","e","r","v","i","c","e">>>>,
    <<<<"e","k","s">>, <<"n","o","d","e","g","r","o","u","p">>>>,
    <<<<"i","a","m">>, <<"r","o","l","e">>>>,
    <<<<"i","a","m">>, <<"g","r","o","u","p">>>>,
    <<<<"l","a","m","b","d","a">>, <<"l","a","y","e","r">>>>,
    <<<<"a","u","t","o","s","c","a","l","i","n","g">>, <<"a","u","t","o","S","c","a","l","i","n","g","G","r","o","u","p">>>> }

SplitInputs ==
    {ArnText(p, k[1], S_us_east_1, S_12345, k[2] \o <<sep>> \o b) :
         p \in RulePartitions, k \in SplitPairs, sep \in {":", "/"},
         b \in BodiesUpTo(MaxRuleIdLen)}

LogsIds == UNION {[1..k -> {"g", ":", "*", "#", "/"}] : k \in 0..MaxLogsIdLen}

LogsInputs ==
    {ArnText(p, <<"l","o","g","s">>, S_us_east_1, S_12345, <<"l","o","g","-","g","r","o","u","p",":">> \o b) :
         p \in RulePartitions, b \in LogsIds}

SecretIds == UNION {[1..k -> {"x", "-"}] : k \in 0..MaxSecretIdLen}

SecretInputs ==
    {ArnText(p, <<"s","e","c","r","e","t","s","m","a","n","a","g","e","r">>, S_us_east_1, S_12345, <<"s","e","c","r","e","t",":">> \o b) :
         p \in RulePartitions, b \in SecretIds}

JobParts == UNION {[1..k -> {"a", "0", "/"}] : k \in 0..MaxJobPartLen}

AmplifyIds ==
    {pre \o <<"/","j","o","b","s","/">> \o post : pre \in JobParts, post \in JobParts}
    \cup JobParts
    \cup {<<"a","/","a","/","a","/","0">>, <<"a","/","j","o","b","s","0","/","a","/","1">>, <<"a","p","p","/","b","r","a","n","c","h","e","s","/","m","a","i","n","/","j","o","b","s","/","0","0","0","0","0","0","0","0","1","2">>}

AmplifyInputs ==
    {ArnText(p, <<"a","m","p","l","i","f","y">>, S_us_east_1, S_12345, <<"a","p","p","s","/">> \o b) :
         p \in RulePartitions, b \in AmplifyIds}

X_iam_role_path == <<"a","r","n",":","a","w","s",":","i","a","m",":",":","1","2","3","4","5",":","r","o","l","e","/","a","/","b","/","N","a","m","e">>

X_iam_role_colon == <<"a","r","n",":","a","w","s",":","i","a","m",":",":","1","2","3","4","5",":","r","o","l","e",":","a","/","b">>

RuleInputs ==
    SplitInputs \cup LogsInputs \cup SecretInputs \cup AmplifyInputs
    \cup {X_iam_role_path, X_iam_role_colon}

InitRules ==
    /\ arn_str \in RuleInputs
    /\ pc = "start"
    /\ result = None
    /\ built = <<>>
    /\ reparsed = None
    /\ rebuilt = <<>>
    /\ padded_str = <<>>
    /\ padded_result = None
    /\ InitLinkVars
    /\ InitCliVars

NextRules == New \/ Link

SpecRules == InitRules /\ [][NextRules]_vars

----------------------------------------------------------------------------
(* The command line tool (src/src/main.rs) *)

\* impl fmt::Display for Error
fmt_Display(err) ==
    CASE err = "TooLong" -> <<"A","R","N"," ","i","s"," ","t","o","o"," ","l","o","n","g">>
      [] err = "BadCharacters" -> <<"A","R","N"," ","c","o","n","t","a","i","n","s"," ","b","a","d"," ","c","h","a","r","a","c","t","e","r","s">>
      [] err = "ParseError" -> <<"A","R","N"," ","i","s"," ","m","a","l","f","o","r","m","e","d">>
      [] err = "NoLink" -> <<"N","o"," ","l","i","n","k"," ","a","v","a","i","l","a","b","l","e">>

\* char::escape_debug, as {:?} of a str applies it ('\'' is left alone)
escape_debug(c) ==
    CASE c = "\"" -> <<"\\", "\"">>
      [] c = "\\" -> <<"\\", "\\">>
      [] c = "\t" -> <<"\\", "t">>
      [] c = "\n" -> <<"\\", "n">>
      [] c = "\r" -> <<"\\", "r">>
      [] c = "U+00A0" -> <<"\\", "u", "{", "a", "0", "}">>
      [] OTHER -> <<c>>

RECURSIVE escape_debug_all(_)
escape_debug_all(s) ==
    IF s = <<>> THEN <<>> ELSE escape_debug(Head(s)) \o escape_debug_all(Tail(s))

\* {:?} of a str: the escaped text between double quotes
fmt_Debug(s) == <<"\"">> \o escape_debug_all(s) \o <<"\"">>

\* the line eprintln!("link2aws: {:?}: {}", line.as_ref(), err) writes
error_line(line, err) ==
    <<"l","i","n","k","2","a","w","s",":"," ">> \o fmt_Debug(line) \o <<":"," ">> \o fmt_Display(err)

\* an item of std::io::stdin().lines(): Ok(line), or Err for a line that
\* cannot be read (it is not valid UTF-8)
LineOk(s) == [ok |-> TRUE, line |-> s]

LineErr == [ok |-> FALSE, line |-> <<>>]

MaxCliInputs == 3

X_s3_111 == <<"a","r","n",":","a","w","s",":","s","3",":",":",":","1","1","1">>

X_quoted == <<"a", "\"", "b">>

CliTexts == {X_s3_111, X_not_an_arn, X_does_not_exist, X_bad_character, X_quoted}

\* the positional arguments are Strings; a line of stdin may fail to be read
CliItems(from_stdin) ==
    {LineOk(s) : s \in CliTexts} \cup (IF from_stdin THEN {LineErr} ELSE {})

InitCli ==
    /\ arn_str = <<>>
    /\ pc = "cli"
    /\ result = None
    /\ built = <<>>
    /\ reparsed = None
    /\ rebuilt = <<>>
    /\ padded_str = <<>>
    /\ padded_result = None
    /\ InitLinkVars
    /\ cli_stdin \in BOOLEAN
    /\ cli_quiet \in BOOLEAN
    /\ \E n \in 0..MaxCliInputs : cli_lines \in [1..n -> CliItems(cli_stdin)]
    /\ cli_next = 1
    /\ all_ok = TRUE
    /\ stdout = <<>>
    /\ stderr = <<>>
    /\ exit_code = -1

\* handle_all, one turn of `for line in lines` on a line that was read
HandleLine ==
    /\ pc = "cli"
    /\ cli_next <= Len(cli_lines)
    /\ cli_lines[cli_next].ok
    /\ a2l_result' = arn_to_link(cli_lines[cli_next].line)
    /\ IF a2l_result'.tag = "Ok"
       THEN /\ stdout' = Append(stdout, a2l_result'.link)
            /\ UNCHANGED <<all_ok, stderr>>
       ELSE /\ all_ok' = FALSE
            /\ stderr' = IF ~cli_quiet
                         THEN Append(stderr, error_line(cli_lines[cli_next].line, a2l_result'.err))
                         ELSE stderr
            /\ UNCHANGED stdout
    /\ cli_next' = cli_next + 1
    /\ UNCHANGED <<arn_str, pc, result, built, reparsed, rebuilt, padded_str, padded_result>>
    /\ UNCHANGED <<link_result, owned, owned_link, owned_built, custom, custom_link>>
    /\ UNCHANGED <<cli_stdin, cli_quiet, cli_lines, exit_code>>

\* the iteration ends (the arguments are used up, stdin is at its end, or
\* map_while(Result::ok) met a line that could not be read); handle_all
\* returns all_ok and main exits
Exit ==
    /\ pc = "cli"
    /\ \/ cli_next > Len(cli_lines)
       \/ cli_next <= Len(cli_lines) /\ ~cli_lines[cli_next].ok
    /\ exit_code' = IF all_ok THEN 0 ELSE 1
    /\ pc' = "exited"
    /\ UNCHANGED <<arn_str, result, built, reparsed, rebuilt, padded_str, padded_result>>
    /\ UNCHANGED linkvars
    /\ UNCHANGED <<cli_stdin, cli_quiet, cli_lines, cli_next, all_ok, stdout, stderr>>

NextCli == HandleLine \/ Exit

SpecCli == InitCli /\ [][NextCli]_vars

----------------------------------------------------------------------------
(* What the properties are stated in: the text of the input, read without  *)
(* the parser.                                                             *)

AllowedAlphabet == Lower \cup Upper \cup Digit \cup AllowedPunct

RegionAlphabet == Lower \cup Upper \cup Digit \cup {"-"}

WhitespaceChars == {" ", "\t", "\n", "U+00A0"}

Trimmed == trim(arn_str)

OverAlphabet(s, A) == \A i \in 1..Len(s) : s[i] \in A

Colons(s) == {i \in 1..Len(s) : s[i] = ":"}

\* the position of the k-th colon of s
NthColon(s, k) == CHOOSE i \in Colons(s) : Cardinality({j \in Colons(s) : j <= i}) = k

\* the text between the (k-1)-th and the k-th colon of s
ColonField(s, k) == SubSeq(s, NthColon(s, k - 1) + 1, NthColon(s, k) - 1)

\* "arn:" and four more colons: the shape the grammar asks for
GrammarShape(s) == starts_with(s, <<"a", "r", "n", ":">>) /\ Cardinality(Colons(s)) >= 5

TextFields(a) ==
    <<a.partition, a.service, a.region, a.account,
      a.resource_type, a.resource_id, a.resource_revision>>

Parsed == pc # "start"

----------------------------------------------------------------------------
(* C1. Round trip: for every record Arn::new returns on an input without   *)
(* leading or trailing whitespace, Arn::new of the record's build()        *)
(* succeeds and returns a record equal to it in all 8 fields.              *)

C1_RoundTrip ==
    (pc \in {"reparsed", "rebuilt"} /\ arn_str = Trimmed) => reparsed = result

(* C2. build inverts parse on the text: for every input Arn::new accepts,  *)
(* build() of the record is the input with leading and trailing whitespace *)
(* removed, character for character.                                       *)

C2_BuildIsTrimmedInput ==
    pc \in {"built", "reparsed", "rebuilt"} => built = Trimmed

(* C3. Idempotence of build: for every record I Arn::new returns,          *)
(* Arn::new(I.build()) succeeds and its build() equals I.build().          *)

C3_BuildIdempotent ==
    /\ pc = "reparsed" => reparsed.tag = "Ok"
    /\ pc = "rebuilt" => rebuilt = built

(* C4. The rejections of Arn::new come in a fixed order: after the trim,   *)
(* an input over the length limit is TooLong whatever else is wrong with   *)
(* it; within the limit, an input with a disallowed character is           *)
(* BadCharacters even when it has not the shape of the grammar; over the   *)
(* allowed alphabet, an input without the shape of the grammar is          *)
(* ParseError whatever stands where the region would be; only then is a    *)
(* bad region BadCharacters.                                               *)

C4_RejectionOrder ==
    Parsed =>
        LET s       == Trimmed
            tooLong == str_len(s) > MaxArnLen
            badChar == ~OverAlphabet(s, AllowedAlphabet)
            noShape == ~GrammarShape(s)
        IN /\ tooLong => result = Err("TooLong")
           /\ (~tooLong /\ badChar) => result = Err("BadCharacters")
           /\ (~tooLong /\ ~badChar /\ noShape) => result = Err("ParseError")
           /\ (~tooLong /\ ~badChar /\ ~noShape) =>
                  IF OverAlphabet(ColonField(s, 4), RegionAlphabet)
                  THEN result.tag = "Ok"
                  ELSE result = Err("BadCharacters")

C4_Witness ==
    /\ pc = "parsed"
    /\ str_len(Trimmed) > MaxArnLen
    /\ ~OverAlphabet(Trimmed, AllowedAlphabet)
    /\ result = Err("TooLong")

(* C5. Region injection guard: the region of every record Arn::new returns *)
(* is made of ASCII alphanumerics and hyphens only, and an input that      *)
(* passes the length, alphabet and grammar checks with any other character *)
(* in its region field is rejected with BadCharacters.                     *)

C5_RegionGuard ==
    Parsed =>
        /\ result.tag = "Ok" => OverAlphabet(result.arn.region, RegionAlphabet)
        /\ ( /\ str_len(Trimmed) <= MaxArnLen
             /\ OverAlphabet(Trimmed, AllowedAlphabet)
             /\ GrammarShape(Trimmed)
             /\ ~OverAlphabet(ColonField(Trimmed, 4), RegionAlphabet) )
           => result = Err("BadCharacters")

C5_Witness ==
    /\ pc = "parsed"
    /\ OverAlphabet(Trimmed, AllowedAlphabet)
    /\ GrammarShape(Trimmed)
    /\ \E i \in 1..Len(ColonField(Trimmed, 4)) : ColonField(Trimmed, 4)[i] \in {".", "/", "@"}
    /\ result = Err("BadCharacters")

(* C6, as stated. Character boundary: an input with a character outside    *)
(* the allowed alphabet at any position is rejected with BadCharacters.    *)

C6_AnyBadCharIsBadCharacters ==
    (Parsed /\ ~OverAlphabet(arn_str, AllowedAlphabet)) => result = Err("BadCharacters")

(* C6, amended. An input that, once its leading and trailing whitespace is *)
(* trimmed, is within the length limit and has a character outside the     *)
(* allowed alphabet at any position is rejected with BadCharacters.        *)

C6_BadCharAfterTrimWithinLimit ==
    (Parsed /\ str_len(Trimmed) <= MaxArnLen /\ ~OverAlphabet(Trimmed, AllowedAlphabet))
        => result = Err("BadCharacters")

C6_Witness ==
    /\ pc = "parsed"
    /\ GrammarShape(Trimmed)
    /\ Cardinality({i \in 1..Len(Trimmed) : Trimmed[i] \notin AllowedAlphabet}) = 1
    /\ result = Err("BadCharacters")

(* C7, as stated. Arn::new returns TooLong exactly when the trimmed input  *)
(* is longer than 2048 characters.                                         *)

C7_TooLongIffChars ==
    Parsed => (result = Err("TooLong") <=> Len(Trimmed) > MaxArnLen)

(* C7, amended. Arn::new returns TooLong exactly when the trimmed input is *)
(* longer than 2048 bytes in UTF-8 (str::len); for an ASCII input that is  *)
(* its number of characters.                                               *)

C7_TooLongIffBytes ==
    Parsed =>
        /\ result = Err("TooLong") <=> str_len(Trimmed) > MaxArnLen
        /\ OverAlphabet(Trimmed, AllowedAlphabet) =>
               (result = Err("TooLong") <=> Len(Trimmed) > MaxArnLen)

C7_Witness ==
    /\ pc = "parsed"
    /\ Len(Trimmed) <= MaxArnLen
    /\ result = Err("TooLong")

(* C8, as stated. Every input of 2049 characters is TooLong.               *)

C8_Every2049IsTooLong ==
    (Parsed /\ Len(arn_str) = MaxArnLen + 1) => result = Err("TooLong")

(* C8, amended. Every input that is 2049 characters long once trimmed is   *)
(* TooLong whatever it contains, and a 2048-character input over the       *)
(* allowed alphabet with the shape of the grammar and a valid region is    *)
(* parsed.                                                                 *)

C8_LengthBoundary ==
    Parsed =>
        /\ Len(Trimmed) = MaxArnLen + 1 => result = Err("TooLong")
        /\ ( /\ Len(arn_str) = MaxArnLen
             /\ OverAlphabet(arn_str, AllowedAlphabet)
             /\ GrammarShape(arn_str)
             /\ OverAlphabet(ColonField(arn_str, 4), RegionAlphabet) )
           => result.tag = "Ok"

C8_Witness ==
    /\ pc = "parsed"
    /\ Len(arn_str) = MaxArnLen
    /\ result.tag = "Ok"

(* C9. Whitespace tolerance: when Arn::new accepts X, it accepts X with    *)
(* whitespace put before and after it and returns the same record; the     *)
(* whitespace is in no field.                                              *)

C9_WhitespaceTolerance ==
    (pc = "padded" /\ result.tag = "Ok") =>
        /\ padded_result = result
        /\ \A k \in 1..7 :
               OverAlphabet(TextFields(padded_result.arn)[k],
                            AllowedAlphabet \ WhitespaceChars)

C9_Witness ==
    /\ pc = "padded"
    /\ result.tag = "Ok"
    /\ is_whitespace(Head(padded_str))
    /\ is_whitespace(padded_str[Len(padded_str)])

(* C10, as stated. The partition of every record Arn::new returns is not   *)
(* empty.                                                                  *)

C10_PartitionNonEmpty ==
    (Parsed /\ result.tag = "Ok") => result.arn.partition # <<>>

(* C10, amended. The partition of every record Arn::new returns is the     *)
(* text between the first and the second colon of the trimmed input, and   *)
(* it may be empty: the grammar accepts an input with an empty partition.  *)

C10_PartitionIsSecondField ==
    Parsed =>
        /\ result.tag = "Ok" => result.arn.partition = ColonField(Trimmed, 2)
        /\ ( /\ str_len(Trimmed) <= MaxArnLen
             /\ OverAlphabet(Trimmed, AllowedAlphabet)
             /\ GrammarShape(Trimmed)
             /\ OverAlphabet(ColonField(Trimmed, 4), RegionAlphabet) )
           => result.tag = "Ok"

C10_Witness ==
    /\ pc = "parsed"
    /\ result.tag = "Ok"
    /\ result.arn.partition = <<>>

----------------------------------------------------------------------------
(* What the link properties are stated in *)

KnownPartitions == {S_aws, S_aws_cn, S_aws_us_gov}

\* the console hostname of a known partition, as the documentation lists it
ConsoleDomain(p) ==
    CASE p = S_aws -> <<"c","o","n","s","o","l","e",".","a","w","s",".","a","m","a","z","o","n",".","c","o","m">>
      [] p = S_aws_cn -> <<"c","o","n","s","o","l","e",".","a","m","a","z","o","n","a","w","s",".","c","n">>
      [] p = S_aws_us_gov -> <<"c","o","n","s","o","l","e",".","a","m","a","z","o","n","a","w","s","-","u","s","-","g","o","v",".","c","o","m">>

Linked == pc \in {"linked", "a2l", "owned"} /\ result.tag = "Ok"

ParseErrors == {"TooLong", "BadCharacters", "ParseError"}

\* the tail: the text after the account field
TailText == SubSeq(Trimmed, NthColon(Trimmed, 5) + 1, Len(Trimmed))

\* the positions of ':' and '/' in s
Delims(s) == {i \in 1..Len(s) : s[i] \in {":", "/"}}

\* the position of the first ':' or '/' of s after position k; 0 when there is none
NextDelim(s, k) ==
    IF \E i \in Delims(s) : i > k THEN Min({i \in Delims(s) : i > k}) ELSE 0

----------------------------------------------------------------------------
(* C11. arn_to_link composes parse then link: it returns Ok(url) exactly   *)
(* when Arn::new succeeds and link() is Some(url), Err(NoLink) exactly     *)
(* when Arn::new succeeds and link() is None, and otherwise the error of   *)
(* Arn::new unchanged, which is one of TooLong, BadCharacters, ParseError  *)
(* and never NoLink.                                                       *)
C11_ArnToLinkComposes ==
    /\ Parsed /\ result.tag = "Err" => result.err \in ParseErrors
    /\ pc = "a2l" =>
        /\ (result.tag = "Ok" /\ link_result.some)
               => a2l_result = [tag |-> "Ok", link |-> link_result.url]
        /\ (result.tag = "Ok" /\ ~link_result.some)
               => a2l_result = Err("NoLink")
        /\ result.tag = "Err" => a2l_result = result
        /\ a2l_result.tag = "Ok" => (result.tag = "Ok" /\ link_result.some)
        /\ a2l_result = Err("NoLink") => (result.tag = "Ok" /\ ~link_result.some)

C11_Witness ==
    /\ pc = "a2l"
    /\ arn_str = X_does_not_exist
    /\ result.tag = "Ok"
    /\ a2l_result = Err("NoLink")

----------------------------------------------------------------------------
(* C12. link() returns Some only when (service, resource_type) is one of   *)
(* the table's pairs, compared exactly and case-sensitively; for every     *)
(* other pair, such as ("does-not-exist", ""), ("S3", "") and              *)
(* ("s3", "bucket"), link() returns None whatever the other fields are,    *)
(* while the identifier parses successfully.                               *)
C12_LinkOnlyForTablePairs ==
    /\ Linked =>
        /\ link_result.some => <<result.arn.service, result.arn.resource_type>> \in TablePairs
        /\ <<result.arn.service, result.arn.resource_type>> \in OtherPairs => link_result = NoLink
    /\ pc = "custom_linked" =>
        (custom_link.some => <<custom.service, custom.resource_type>> \in TablePairs)
    /\ Parsed /\ arn_str = X_does_not_exist => result.tag = "Ok"

C12_Witness ==
    /\ pc = "linked"
    /\ result.arn.partition = S_aws
    /\ result.arn.service = <<"s","3">>
    /\ result.arn.resource_type = <<"b","u","c","k","e","t">>
    /\ link_result = NoLink

----------------------------------------------------------------------------
(* C13. domain() maps partition "aws" to console.aws.amazon.com, "aws-cn"  *)
(* to console.amazonaws.cn, "aws-us-gov" to console.amazonaws-us-gov.com   *)
(* and any other partition to None; for every record whose partition is    *)
(* not one of the three, link() returns None for every pair.               *)
C13_DomainOfPartition ==
    /\ Linked =>
        /\ result.arn.partition \in KnownPartitions
               => domain(result.arn) = SomeStr(ConsoleDomain(result.arn.partition))
        /\ result.arn.partition \notin KnownPartitions
               => domain(result.arn) = NoStr /\ link_result = NoLink
    /\ pc = "custom_linked" =>
        /\ custom.partition \in KnownPartitions
               => domain(custom) = SomeStr(ConsoleDomain(custom.partition))
        /\ custom.partition \notin KnownPartitions
               => domain(custom) = NoStr /\ custom_link = NoLink

C13_Witness ==
    /\ pc = "linked"
    /\ result.arn.partition = <<"A","W","S">>
    /\ <<result.arn.service, result.arn.resource_type>> \in TablePairs
    /\ link_result = NoLink

----------------------------------------------------------------------------
(* C14. For an identifier "arn:<partition>:s3:::<name>" with a known       *)
(* partition and a name without ':' and '/' (over the accepted alphabet,   *)
(* within the length limit), parsing yields resource_type = "" and         *)
(* resource_id = <name>, and link() returns                                *)
(* "https://s3.<console domain>/s3/buckets/<name>"; arn_to_link and a      *)
(* hand-written record with the same field values give the same link.      *)
(* For arn:aws:s3:::abc123 it is                                           *)
(* https://s3.console.aws.amazon.com/s3/buckets/abc123.                    *)
S3Prefix(p) == ArnText(p, <<"s","3">>, <<>>, <<>>, <<>>)

S3Url(p, name) ==
    <<"h","t","t","p","s",":","/","/","s","3",".">> \o ConsoleDomain(p) \o <<"/","s","3","/","b","u","c","k","e","t","s","/">> \o name

U_s3_abc123 == <<"h","t","t","p","s",":","/","/","s","3",".","c","o","n","s","o","l","e",".","a","w","s",".","a","m","a","z","o","n",".","c","o","m","/","s","3","/","b","u","c","k","e","t","s","/","a","b","c","1","2","3">>

\* a bucket name the claim is about
S3Name(name) ==
    OverAlphabet(name, AllowedAlphabet \ {":", "/"})

C14_S3Link ==
    /\ \A p \in KnownPartitions :
         LET name == SubSeq(Trimmed, Len(S3Prefix(p)) + 1, Len(Trimmed))
         IN (/\ Parsed
             /\ starts_with(Trimmed, S3Prefix(p))
             /\ S3Name(name)
             /\ str_len(Trimmed) <= MaxArnLen)
            => /\ result.tag = "Ok"
               /\ result.arn.resource_type = <<>>
               /\ result.arn.resource_id = name
               /\ Linked => link_result = [some |-> TRUE, url |-> S3Url(p, name)]
               /\ pc = "a2l" => a2l_result = [tag |-> "Ok", link |-> S3Url(p, name)]
    /\ (/\ pc = "custom_linked"
        /\ custom.partition \in KnownPartitions
        /\ custom.service = <<"s","3">>
        /\ custom.region = <<>>
        /\ custom.account = <<>>
        /\ custom.resource_type = <<>>
        /\ S3Name(custom.resource_id)
        /\ custom.resource_revision = <<>>
        /\ ~custom.has_path)
       => custom_link = [some |-> TRUE, url |-> S3Url(custom.partition, custom.resource_id)]
    /\ pc = "a2l" /\ arn_str = X_s3_abc123
       => a2l_result = [tag |-> "Ok", link |-> U_s3_abc123]
    /\ (pc = "custom_linked" /\ custom.resource_id = <<"a","b","c","1","2","3">> /\ custom_link.some
            /\ custom.partition = S_aws /\ custom.service = <<"s","3">>)
       => custom_link.url = U_s3_abc123

C14_Witness ==
    /\ pc = "a2l"
    /\ arn_str = ArnText(S_aws_cn, <<"s","3">>, <<>>, <<>>, <<"a",".","b","-","c","_","1">>)
    /\ a2l_result.tag = "Ok"
    /\ a2l_result.link = link_result.url

----------------------------------------------------------------------------
(* C15. Tail form B: when the first ':' or '/' in the tail (the text after *)
(* the account field) is a ':', parsing yields resource_type = the text    *)
(* before that colon, resource_id = the entire remainder verbatim,         *)
(* resource_revision = "" and has_path = false.                            *)
(* arn:aws:rds:us-east-1:12345:snapshot:rds:db gives type "snapshot", id   *)
(* "rds:db" and the link                                                   *)
(* https://console.aws.amazon.com/rds/home?region=us-east-1#db-snapshot:id=rds:db. *)
U_rds_snapshot == <<"h","t","t","p","s",":","/","/","c","o","n","s","o","l","e",".","a","w","s",".","a","m","a","z","o","n",".","c","o","m","/","r","d","s","/","h","o","m","e","?","r","e","g","i","o","n","=","u","s","-","e","a","s","t","-","1","#","d","b","-","s","n","a","p","s","h","o","t",":","i","d","=","r","d","s",":","d","b">>

C15_TailFormB ==
    /\ (/\ Parsed
        /\ result.tag = "Ok"
        /\ NextDelim(TailText, 0) # 0
        /\ TailText[NextDelim(TailText, 0)] = ":")
       => /\ result.arn.resource_type = SubSeq(TailText, 1, NextDelim(TailText, 0) - 1)
          /\ result.arn.resource_id = SubSeq(TailText, NextDelim(TailText, 0) + 1, Len(TailText))
          /\ result.arn.resource_revision = <<>>
          /\ result.arn.has_path = FALSE
    /\ Parsed /\ arn_str = X_rds_snapshot
       => /\ result.tag = "Ok"
          /\ result.arn.resource_type = <<"s","n","a","p","s","h","o","t">>
          /\ result.arn.resource_id = <<"r","d","s",":","d","b">>
          /\ Linked => link_result = [some |-> TRUE, url |-> U_rds_snapshot]

C15_Witness ==
    /\ pc = "linked"
    /\ arn_str = X_rds_snapshot
    /\ result.arn.resource_id = <<"r","d","s",":","d","b">>
    /\ link_result.some

----------------------------------------------------------------------------
(* C16. The owned copy is equivalent to the borrowed record: for every     *)
(* successfully parsed Arn a, a == a.to_owned() and a.to_owned() == a, the *)
(* two agree in all 8 fields, a.to_owned().link() == a.link() and          *)
(* a.to_owned().build() == a.build().                                      *)
C16_OwnedEquivalent ==
    pc = "owned" =>
        /\ arn_eq_owned(result.arn, owned)
        /\ owned_eq_arn(owned, result.arn)
        /\ TextFields(owned) = TextFields(result.arn)
        /\ owned.has_path = result.arn.has_path
        /\ owned_link = link_result
        /\ owned_built = built

C16_Witness ==
    /\ pc = "owned"
    /\ result.arn.has_path
    /\ result.arn.resource_revision # <<>>
    /\ owned_link.some

----------------------------------------------------------------------------
(* C17. CLI exit status: after processing a sequence of inputs (positional *)
(* arguments, or stdin lines with --stdin), the process exits 0 if and     *)
(* only if arn_to_link succeeded for every input, and exits 1 if at least  *)
(* one input failed, wherever in the sequence the failure occurred.        *)
(* (Only the lines that are text are counted as inputs here.)              *)
FailedInputs ==
    {i \in 1..Len(cli_lines) : cli_lines[i].ok /\ arn_to_link(cli_lines[i].line).tag = "Err"}

C17_ExitStatus ==
    pc = "exited" =>
        /\ exit_code \in {0, 1}
        /\ exit_code = 0 <=> FailedInputs = {}
        /\ exit_code = 1 <=> FailedInputs # {}

----------------------------------------------------------------------------
(* C18. CLI output: inputs are processed in input order and processing     *)
(* never stops at a failure; each successful input adds exactly one line   *)
(* (its URL) to stdout and nothing to stderr; each failed input adds       *)
(* nothing to stdout and, unless the quiet flag is set, exactly one line   *)
(* link2aws: "<input>": <message> to stderr ("ARN is malformed" for        *)
(* ParseError).  With the quiet flag stderr stays empty while stdout and    *)
(* the exit status are the same as without it.                             *)
RECURSIVE UrlsOf(_)
UrlsOf(items) ==
    IF items = <<>> THEN <<>>
    ELSE (IF Head(items).ok /\ arn_to_link(Head(items).line).tag = "Ok"
          THEN <<arn_to_link(Head(items).line).link>> ELSE <<>>)
         \o UrlsOf(Tail(items))

\* link2aws: "<input>": <message>
QuotedErrorLine(input, err) ==
    <<"l","i","n","k","2","a","w","s",":"," ">> \o <<"\"">> \o input \o <<"\"">> \o <<":"," ">> \o fmt_Display(err)

RECURSIVE ErrorLinesOf(_)
ErrorLinesOf(items) ==
    IF items = <<>> THEN <<>>
    ELSE (IF Head(items).ok /\ arn_to_link(Head(items).line).tag = "Err"
          THEN <<QuotedErrorLine(Head(items).line, arn_to_link(Head(items).line).err)>>
          ELSE <<>>)
         \o ErrorLinesOf(Tail(items))

C18_Output ==
    /\ pc = "exited" =>
        /\ stdout = UrlsOf(cli_lines)
        /\ stderr = IF cli_quiet THEN <<>> ELSE ErrorLinesOf(cli_lines)
    /\ QuotedErrorLine(X_not_an_arn, "ParseError")
           = <<"l","i","n","k","2","a","w","s",":"," ","\"","t","h","i","s","-","i","s","-","n","o","t","-","a","n","-","a","r","n","\"",":"," ","A","R","N"," ","i","s"," ","m","a","l","f","o","r","m","e","d">>

----------------------------------------------------------------------------
(* C19. Tail form A has priority: when the first ':' or '/' in the tail is *)
(* a '/' and the next ':' or '/' after it is a ':', parsing yields         *)
(* resource_type = the text before the slash, resource_id = the text       *)
(* between that slash and that colon, resource_revision = everything after *)
(* that colon, verbatim, and has_path = true.                              *)
SlashThenColon(t) ==
    /\ NextDelim(t, 0) # 0
    /\ t[NextDelim(t, 0)] = "/"
    /\ NextDelim(t, NextDelim(t, 0)) # 0
    /\ t[NextDelim(t, NextDelim(t, 0))] = ":"

C19_TailFormA ==
    (Parsed /\ result.tag = "Ok" /\ SlashThenColon(TailText))
    => LET slash == NextDelim(TailText, 0)
           colon == NextDelim(TailText, slash)
       IN /\ result.arn.resource_type = SubSeq(TailText, 1, slash - 1)
          /\ result.arn.resource_id = SubSeq(TailText, slash + 1, colon - 1)
          /\ result.arn.resource_revision = SubSeq(TailText, colon + 1, Len(TailText))
          /\ result.arn.has_path = TRUE

C19_Witness ==
    /\ Parsed
    /\ result.tag = "Ok"
    /\ SlashThenColon(TailText)
    /\ result.arn.has_path
    /\ \E i \in 1..Len(result.arn.resource_revision) :
           result.arn.resource_revision[i] \in {":", "/"}

----------------------------------------------------------------------------
(* C20. Tail form C: when forms A and B do not match the tail and the      *)
(* tail, after one optional leading '/' is skipped, has a '/' as its first *)
(* ':' or '/', parsing yields resource_type = the text before that slash,  *)
(* resource_id = the entire remainder verbatim, resource_revision = "" and *)
(* has_path = true; the skipped leading slash is kept in no field.         *)
ColonFirst(t) == NextDelim(t, 0) # 0 /\ t[NextDelim(t, 0)] = ":"

\* the tail without one leading '/'
SkipSlash(t) == IF t # <<>> /\ t[1] = "/" THEN SubSeq(t, 2, Len(t)) ELSE t

SlashFirst(t) == NextDelim(t, 0) # 0 /\ t[NextDelim(t, 0)] = "/"

C20_TailFormC ==
    (/\ Parsed
     /\ result.tag = "Ok"
     /\ ~SlashThenColon(TailText)
     /\ ~ColonFirst(TailText)
     /\ SlashFirst(SkipSlash(TailText)))
    => LET rest == SkipSlash(TailText)
           slash == NextDelim(rest, 0)
       IN /\ result.arn.resource_type = SubSeq(rest, 1, slash - 1)
          /\ result.arn.resource_id = SubSeq(rest, slash + 1, Len(rest))
          /\ result.arn.resource_revision = <<>>
          /\ result.arn.has_path = TRUE

C20_Witness ==
    /\ Parsed
    /\ result.tag = "Ok"
    /\ TailText # <<>>
    /\ TailText[1] = "/"
    /\ result.arn.resource_type = <<"t">>
    /\ result.arn.has_path
    /\ result.arn.resource_revision = <<>>
    /\ \E i \in 1..Len(result.arn.resource_id) : result.arn.resource_id[i] = ":"

----------------------------------------------------------------------------
(* C28. Among inputs that pass the length and alphabet checks, Arn::new    *)
(* returns ParseError if and only if the trimmed input does not start with *)
(* the exact lower-case text "arn:" or contains fewer than five ':' in     *)
(* total; otherwise the structural parse succeeds: a tail without ':' and  *)
(* '/', the empty one included, becomes resource_type "", resource_id =    *)
(* the whole tail, has_path false.                                         *)
C28_ParseErrorIffNoShape ==
    (/\ Parsed
     /\ str_len(Trimmed) <= MaxArnLen
     /\ OverAlphabet(Trimmed, AllowedAlphabet))
    => /\ result = Err("ParseError")
              <=> ~(/\ starts_with(Trimmed, <<"a", "r", "n", ":">>)
                    /\ Cardinality(Colons(Trimmed)) >= 5)
       /\ (result.tag = "Ok" /\ Delims(TailText) = {})
              => /\ result.arn.resource_type = <<>>
                 /\ result.arn.resource_id = TailText
                 /\ result.arn.resource_revision = <<>>
                 /\ result.arn.has_path = FALSE

C28_Witness ==
    /\ Parsed
    /\ result.tag = "Ok"
    /\ TailText = <<>>
    /\ result.arn.resource_id = <<>>

----------------------------------------------------------------------------
(* What the properties of the single rules are stated in *)

\* the position of the first c of s; 0 when there is none
FirstAt(s, c) == IF \E i \in 1..Len(s) : s[i] = c THEN Min({i \in 1..Len(s) : s[i] = c}) ELSE 0

\* the position of the last c of s; 0 when there is none
LastAt(s, c) ==
    IF \E i \in 1..Len(s) : s[i] = c
    THEN CHOOSE i \in 1..Len(s) : s[i] = c /\ \A j \in (i + 1)..Len(s) : s[j] # c
    ELSE 0

Before(s, i) == SubSeq(s, 1, i - 1)

After(s, i) == SubSeq(s, i + 1, Len(s))

\* link() was called on a record of Arn::new with this service and type
RuleCase(service, resource_type) ==
    /\ pc = "linked"
    /\ result.tag = "Ok"
    /\ result.arn.service = service
    /\ result.arn.resource_type = resource_type

KnownPartition == result.arn.partition \in KnownPartitions

\* "https://<console domain>"
DomainHost == <<"h","t","t","p","s",":","/","/">> \o ConsoleDomain(result.arn.partition)

\* "https://<region>.<console domain>"
RegionHost == <<"h","t","t","p","s",":","/","/">> \o result.arn.region \o <<".">> \o ConsoleDomain(result.arn.partition)

Url(u) == [some |-> TRUE, url |-> u]

----------------------------------------------------------------------------
(* C21. The rules ("ecs","task") and ("ecs","service") split resource_id   *)
(* on its last '/' only: the cluster path is everything before it, the     *)
(* task or service id everything after it, in                              *)
(* https://<region>.<domain>/ecs/v2/clusters/<cluster path>/tasks|services/<id>?region=<region>. *)
(* Without a '/' both parts are empty and a link is still returned.        *)
EcsUrl(kind) ==
    LET id == result.arn.resource_id
        i  == LastAt(id, "/")
    IN RegionHost \o <<"/","e","c","s","/","v","2","/","c","l","u","s","t","e","r","s","/">>
       \o (IF i = 0 THEN <<>> ELSE Before(id, i))
       \o <<"/">> \o kind \o <<"/">>
       \o (IF i = 0 THEN <<>> ELSE After(id, i))
       \o <<"?","r","e","g","i","o","n","=">> \o result.arn.region

C21_EcsSplitsOnLastSlash ==
    /\ (RuleCase(<<"e","c","s">>, <<"t","a","s","k">>) /\ KnownPartition)
           => link_result = Url(EcsUrl(<<"t","a","s","k","s">>))
    /\ (RuleCase(<<"e","c","s">>, <<"s","e","r","v","i","c","e">>) /\ KnownPartition)
           => link_result = Url(EcsUrl(<<"s","e","r","v","i","c","e","s">>))

C21_Witness ==
    /\ RuleCase(<<"e","c","s">>, <<"t","a","s","k">>)
    /\ KnownPartition
    /\ Cardinality({i \in 1..Len(result.arn.resource_id) : result.arn.resource_id[i] = "/"}) >= 2
    /\ link_result.some

----------------------------------------------------------------------------
(* C22. Rule ("logs","log-group"): link() is None unless resource_id ends  *)
(* with ":*"; otherwise one trailing ":*" is removed and every ':' becomes *)
(* "$3A", every '#' "$2523" and every '/' "$252F".  The text after         *)
(* "log-group/" in the URL contains no ':', '#' or '/'.                    *)
EscapeChar(c) ==
    CASE c = ":" -> <<"$","3","A">>
      [] c = "#" -> <<"$","2","5","2","3">>
      [] c = "/" -> <<"$","2","5","2","F">>
      [] OTHER -> <<c>>

RECURSIVE EscapeEach(_)
EscapeEach(s) == IF s = <<>> THEN <<>> ELSE EscapeChar(Head(s)) \o EscapeEach(Tail(s))

EndsWithColonStar(s) == Len(s) >= 2 /\ s[Len(s) - 1] = ":" /\ s[Len(s)] = "*"

LogsPrefix ==
    RegionHost \o <<"/","c","l","o","u","d","w","a","t","c","h","/","h","o","m","e","?","r","e","g","i","o","n","=">> \o result.arn.region
    \o <<"#","l","o","g","s","V","2",":","l","o","g","-","g","r","o","u","p","s","/","l","o","g","-","g","r","o","u","p","/">>

C22_LogGroupEscaping ==
    RuleCase(<<"l","o","g","s">>, <<"l","o","g","-","g","r","o","u","p">>) =>
        LET id == result.arn.resource_id
        IN /\ ~EndsWithColonStar(id) => link_result = NoLink
           /\ (EndsWithColonStar(id) /\ KnownPartition) =>
                 /\ link_result = Url(LogsPrefix \o EscapeEach(SubSeq(id, 1, Len(id) - 2)))
                 /\ \A i \in (Len(LogsPrefix) + 1)..Len(link_result.url) :
                        link_result.url[i] \notin {":", "#", "/"}

C22_Witness ==
    /\ RuleCase(<<"l","o","g","s">>, <<"l","o","g","-","g","r","o","u","p">>)
    /\ KnownPartition
    /\ link_result.some
    /\ \E i \in 1..Len(result.arn.resource_id) : result.arn.resource_id[i] = "#"
    /\ \E i \in 1..Len(result.arn.resource_id) : result.arn.resource_id[i] = "/"

----------------------------------------------------------------------------
(* C23. Rule ("secretsmanager","secret") with a known partition, as        *)
(* stated: link() returns a URL if and only if resource_id ends with a     *)
(* hyphen followed by exactly 6 characters, and the name in the URL is     *)
(* resource_id without those 7 characters.                                 *)
HyphenThenSix(s) == Len(s) >= 7 /\ s[Len(s) - 6] = "-"

SecretUrl ==
    RegionHost \o <<"/","s","e","c","r","e","t","s","m","a","n","a","g","e","r","/","s","e","c","r","e","t","?","n","a","m","e","=">>
    \o SubSeq(result.arn.resource_id, 1, Len(result.arn.resource_id) - 7)

C23_HyphenThenSix ==
    (RuleCase(<<"s","e","c","r","e","t","s","m","a","n","a","g","e","r">>, <<"s","e","c","r","e","t">>) /\ KnownPartition) =>
        /\ link_result.some <=> HyphenThenSix(result.arn.resource_id)
        /\ link_result.some => link_result = Url(SecretUrl)

(* C23, amended. Rule ("secretsmanager","secret") with a known partition:  *)
(* link() returns a URL if and only if the text after the last hyphen of   *)
(* resource_id is exactly 6 characters long, that is, resource_id ends     *)
(* with a hyphen followed by exactly 6 characters none of which is a       *)
(* hyphen; the name in the URL is resource_id without those 7 characters.  *)
C23_SixAfterLastHyphen ==
    (RuleCase(<<"s","e","c","r","e","t","s","m","a","n","a","g","e","r">>, <<"s","e","c","r","e","t">>) /\ KnownPartition) =>
        LET id == result.arn.resource_id
        IN /\ link_result.some
                  <=> /\ HyphenThenSix(id)
                      /\ \A i \in (Len(id) - 5)..Len(id) : id[i] # "-"
           /\ link_result.some => link_result = Url(SecretUrl)

C23_Witness ==
    /\ RuleCase(<<"s","e","c","r","e","t","s","m","a","n","a","g","e","r">>, <<"s","e","c","r","e","t">>)
    /\ KnownPartition
    /\ HyphenThenSix(result.arn.resource_id)
    /\ \E i \in (Len(result.arn.resource_id) - 5)..Len(result.arn.resource_id) :
           result.arn.resource_id[i] = "-"
    /\ link_result = NoLink

----------------------------------------------------------------------------
(* C24. Rule ("amplify","apps") with a known partition: link() returns a   *)
(* URL if and only if resource_id contains "/jobs/" and splits on '/' into *)
(* at least 4 segments; the URL is                                         *)
(* https://<region>.<domain>/amplify/home?region=<region>#/<first segment>/<third segment>/<job>, *)
(* <job> being the last segment without its leading '0' characters.        *)
Slashes(s) == {i \in 1..Len(s) : s[i] = "/"}

\* the k-th slash of s, for k in 1..Cardinality(Slashes(s))
SlashAt(s, k) == CHOOSE i \in Slashes(s) : Cardinality({j \in Slashes(s) : j <= i}) = k

\* s without its leading '0' characters
WithoutLeadingZeros(s) ==
    IF \A i \in 1..Len(s) : s[i] = "0" THEN <<>>
    ELSE SubSeq(s, Min({i \in 1..Len(s) : s[i] # "0"}), Len(s))

HasJobs(s) == \E i \in 1..(Len(s) - 5) : SubSeq(s, i, i + 5) = <<"/","j","o","b","s","/">>

AmplifyUrl ==
    LET id == result.arn.resource_id
    IN RegionHost \o <<"/","a","m","p","l","i","f","y","/","h","o","m","e","?","r","e","g","i","o","n","=">> \o result.arn.region \o <<"#","/">>
       \o Before(id, SlashAt(id, 1))
       \o <<"/">>
       \o SubSeq(id, SlashAt(id, 2) + 1, SlashAt(id, 3) - 1)
       \o <<"/">>
       \o WithoutLeadingZeros(After(id, LastAt(id, "/")))

C24_AmplifyJobs ==
    (RuleCase(<<"a","m","p","l","i","f","y">>, <<"a","p","p","s">>) /\ KnownPartition) =>
        LET id == result.arn.resource_id
        IN /\ link_result.some <=> (HasJobs(id) /\ Cardinality(Slashes(id)) >= 3)
           /\ link_result.some => link_result = Url(AmplifyUrl)

C24_Witness ==
    /\ RuleCase(<<"a","m","p","l","i","f","y">>, <<"a","p","p","s">>)
    /\ KnownPartition
    /\ link_result.some
    /\ After(result.arn.resource_id, LastAt(result.arn.resource_id, "/")) = <<"0">>

----------------------------------------------------------------------------
(* C25. Rule ("lambda","layer"): resource_id is split at its first ':';    *)
(* the layer name is the text before it and the version the text after it; *)
(* without a ':' or with nothing after it the version is "1".  The link    *)
(* https://<region>.<domain>/lambda/home?region=<region>#/layers/<name>/versions/<version> *)
(* is returned for every resource_id when the partition is known.          *)
LayerUrl ==
    LET id == result.arn.resource_id
        i  == FirstAt(id, ":")
    IN RegionHost \o <<"/","l","a","m","b","d","a","/","h","o","m","e","?","r","e","g","i","o","n","=">> \o result.arn.region \o <<"#","/","l","a","y","e","r","s","/">>
       \o (IF i = 0 THEN id ELSE Before(id, i))
       \o <<"/","v","e","r","s","i","o","n","s","/">>
       \o (IF i = 0 \/ After(id, i) = <<>> THEN <<"1">> ELSE After(id, i))

C25_LambdaLayerVersion ==
    (RuleCase(<<"l","a","m","b","d","a">>, <<"l","a","y","e","r">>) /\ KnownPartition) => link_result = Url(LayerUrl)

C25_Witness ==
    /\ RuleCase(<<"l","a","m","b","d","a">>, <<"l","a","y","e","r">>)
    /\ KnownPartition
    /\ FirstAt(result.arn.resource_id, ":") = Len(result.arn.resource_id)
    /\ Len(result.arn.resource_id) >= 2
    /\ link_result.some

----------------------------------------------------------------------------
(* C26. path_last and the rules ("iam","role") and ("iam","group"): with   *)
(* has_path the name in the URL is the text after the last '/' of          *)
(* resource_id (all of it when it has no '/'); without has_path it is the  *)
(* whole resource_id even if it contains '/'.  "role/a/b/Name" links to    *)
(* .../roles/Name, the colon-delimited "role:a/b" to .../roles/a/b.        *)
LastName ==
    IF result.arn.has_path
    THEN After(result.arn.resource_id, LastAt(result.arn.resource_id, "/"))
    ELSE result.arn.resource_id

C26_PathLast ==
    /\ (RuleCase(<<"i","a","m">>, <<"r","o","l","e">>) /\ KnownPartition)
           => link_result = Url(DomainHost \o <<"/","i","a","m","/","h","o","m","e","?","#","/","r","o","l","e","s","/">> \o LastName)
    /\ (RuleCase(<<"i","a","m">>, <<"g","r","o","u","p">>) /\ KnownPartition)
           => link_result = Url(DomainHost \o <<"/","i","a","m","v","2","/","h","o","m","e","#","/","g","r","o","u","p","s","/","d","e","t","a","i","l","s","/">> \o LastName)
    /\ (pc = "linked" /\ arn_str = X_iam_role_path)
           => link_result = Url(<<"h","t","t","p","s",":","/","/","c","o","n","s","o","l","e",".","a","w","s",".","a","m","a","z","o","n",".","c","o","m","/","i","a","m","/","h","o","m","e","?","#","/","r","o","l","e","s","/","N","a","m","e">>)
    /\ (pc = "linked" /\ arn_str = X_iam_role_colon)
           => link_result = Url(<<"h","t","t","p","s",":","/","/","c","o","n","s","o","l","e",".","a","w","s",".","a","m","a","z","o","n",".","c","o","m","/","i","a","m","/","h","o","m","e","?","#","/","r","o","l","e","s","/","a","/","b">>)

C26_Witness ==
    /\ pc = "linked"
    /\ arn_str = X_iam_role_colon
    /\ ~result.arn.has_path
    /\ link_result.some

----------------------------------------------------------------------------
(* C27. Rule ("eks","nodegroup"): resource_id is split on '/'; the first   *)
(* segment is the cluster name and the second the nodegroup name, further  *)
(* segments being ignored; without a '/' in resource_id link() returns     *)
(* None, not a URL with an empty component.                                *)
NodegroupUrl ==
    LET id == result.arn.resource_id
        i  == FirstAt(id, "/")
        rest == After(id, i)
        j  == FirstAt(rest, "/")
    IN DomainHost \o <<"/","e","k","s","/","h","o","m","e","?","r","e","g","i","o","n","=">> \o result.arn.region \o <<"#","/","c","l","u","s","t","e","r","s","/">>
       \o Before(id, i)
       \o <<"/","n","o","d","e","g","r","o","u","p","s","/">>
       \o (IF j = 0 THEN rest ELSE Before(rest, j))

C27_NodegroupNeedsTwoSegments ==
    RuleCase(<<"e","k","s">>, <<"n","o","d","e","g","r","o","u","p">>) =>
        /\ FirstAt(result.arn.resource_id, "/") = 0 => link_result = NoLink
        /\ (FirstAt(result.arn.resource_id, "/") # 0 /\ KnownPartition)
               => link_result = Url(NodegroupUrl)

C27_Witness ==
    /\ RuleCase(<<"e","k","s">>, <<"n","o","d","e","g","r","o","u","p">>)
    /\ KnownPartition
    /\ result.arn.resource_id # <<>>
    /\ FirstAt(result.arn.resource_id, "/") = 0
    /\ link_result = NoLink

----------------------------------------------------------------------------
(* C30. Rule ("autoscaling","autoScalingGroup") splits resource_id at its  *)
(* first '/': the group name in the URL is everything after it, and the    *)
(* empty string when resource_id has no '/'; with a known partition a link *)
(* is always returned.                                                     *)
GroupUrl ==
    LET id == result.arn.resource_id
        i  == FirstAt(id, "/")
    IN RegionHost \o <<"/","e","c","2","/","h","o","m","e","?","r","e","g","i","o","n","=">> \o result.arn.region
       \o <<"#","A","u","t","o","S","c","a","l","i","n","g","G","r","o","u","p","D","e","t","a","i","l","s",":","i","d","=">>
       \o (IF i = 0 THEN <<>> ELSE After(id, i))
       \o <<";","v","i","e","w","=","d","e","t","a","i","l","s">>

C30_AutoscalingFirstSlash ==
    (RuleCase(<<"a","u","t","o","s","c","a","l","i","n","g">>, <<"a","u","t","o","S","c","a","l","i","n","g","G","r","o","u","p">>) /\ KnownPartition)
        => link_result = Url(GroupUrl)

C30_Witness ==
    /\ RuleCase(<<"a","u","t","o","s","c","a","l","i","n","g">>, <<"a","u","t","o","S","c","a","l","i","n","g","G","r","o","u","p">>)
    /\ KnownPartition
    /\ Cardinality(Slashes(result.arn.resource_id)) >= 2
    /\ link_result.some

----------------------------------------------------------------------------
(* C29. Host safety of generated links: for every record returned by a     *)
(* successful Arn::new for which link() returns Some(url), url starts with *)
(* "https://" and the host (the text up to the next '/') is exactly the    *)
(* partition's console domain, or "<region>." followed by it, or "s3."     *)
(* followed by it; the host contains only ASCII alphanumerics, '.' and     *)
(* '-'.                                                                    *)
UrlHost(url) ==
    LET rest == SubSeq(url, 9, Len(url))
        i == FirstAt(rest, "/")
    IN IF i = 0 THEN rest ELSE Before(rest, i)

C29_HostSafety ==
    (Linked /\ link_result.some) =>
        LET host == UrlHost(link_result.url)
            dom  == ConsoleDomain(result.arn.partition)
        IN /\ result.arn.partition \in KnownPartitions
           /\ SubSeq(link_result.url, 1, 8) = <<"h","t","t","p","s",":","/","/">>
           /\ host \in {dom, result.arn.region \o <<".">> \o dom, <<"s","3",".">> \o dom}
           /\ OverAlphabet(host, Lower \cup Upper \cup Digit \cup {".", "-"})

C29_Witness ==
    /\ Linked
    /\ link_result.some
    /\ result.arn.region = S_us_east_1
    /\ UrlHost(link_result.url) = S_us_east_1 \o <<".">> \o ConsoleDomain(result.arn.partition)

============================================================================
